---- MODULE Spec2Model ----
(***************************************************************************)
(* Training pipeline, model registry and model loader of the restaurant   *)
(* ML service.                                                             *)
(*                                                                         *)
(* The registry is a directory tree                                        *)
(*     <model_dir>/<model_type>/restaurant_<id>/<version>/                 *)
(* holding model.joblib and metadata.json, plus a symlink `latest` in      *)
(* <model_dir>/<model_type>/restaurant_<id>/.  One ModelTrainingPipeline   *)
(* (a sequential Python process) writes it; ModelLoader calls read it      *)
(* concurrently from the serving processes.                                *)
(***************************************************************************)
EXTENDS Integers, Sequences, FiniteSets, TLC

\* ------------------------------------------------------------------ bounds
MaxRuns == 2      \* train_<task> calls made on the pipeline in one behaviour
MaxTicks == 1     \* seconds the wall clock advances in one behaviour
MaxReads == 1     \* ModelLoader calls made by the reader in one behaviour
MaxTasks == 2     \* model types trained while the reader runs (the first of TrainOrder)
ClockStart == 59  \* wall-clock second at which the behaviour starts

\* --------------------------------------------------------- program constants
SecondsPerMinute == 60

ModelTypes == {"demand", "kitchen", "churn", "ltv", "inventory"}

\* the order in which train_all_models calls the five train_<task> methods
TrainOrder == <<"demand", "kitchen", "churn", "ltv", "inventory">>

\* results['models'] is created as a list literal
ModelsContainer == "list"

\* ModelTrainingPipeline(restaurant_id=1): default, and what train_models.main passes
RestaurantId == 1

\* a path is the sequence of its components; an absolute path starts at "/"
RelModelDir == <<"models">>
AbsModelDir == <<"/", "srv", "models">>
ModelDirs == {RelModelDir, AbsModelDir}

\* evaluation metrics a model's evaluate() can return; the inventory run passes {}
MetricsVals == {"m1", "m2"}
EmptyMetrics == "{}"

\* ------------------------------------------------------------------- state
VARIABLES
    model_dir,   \* self.model_dir / self.model_base_dir, fixed at construction
    now,         \* the wall clock, in seconds
    dirs,        \* dirs[t]: version directories of <model_dir>/t/restaurant_1/
    latest,      \* latest[t]: the `latest` symlink of that directory, <<>> or <<target>>
    sv,          \* the _save_model call in progress
    run,         \* the train_<task> call in progress
    all,         \* the train_all_models call in progress
    result,      \* what the last train_<task> call returned
    saved,       \* history: saved[t] = the _save_model calls of t that returned
    started,     \* history: started[t] = the _save_model calls of t that made their directory
    nruns,       \* number of train_<task> calls started
    rd,          \* the ModelLoader call in progress and its return value
    nreads,      \* number of ModelLoader calls started
    mdl,         \* the five model objects of a model-level session
    call,        \* the last operation invoked on a model object
    validation,  \* the last DataValidator call: its DataFrame and what came of it
    svc,         \* a prediction service object: its construction and its calls
    dm,          \* the DemandForecastModel object and the last call made on it
    fe,          \* the FeatureEngineer calls: feature_names a model recorded, and the last serving call
    enc,         \* a CustomerChurnModel or CustomerLTVModel and its label encoders
    kb,          \* the last call on a KitchenPredictionService
    nn,          \* the last prediction a model or service returned, with the numbers in it
    inv,         \* the last inventory recommendation call
    seg,         \* the LTV scorings done so far, the latest last
    cal,         \* the last record extracted and processed, with its calendar flags
    rfm,         \* the last _calculate_rfm_score call: its arguments and its result in hundredths
    eoq,         \* the last predict_order_quantity call: its arguments and what it returned
    rop,         \* an InventoryOptimizationModel and its last predict_reorder_point call
    split        \* the last train/test split of a training run

vars == <<model_dir, now, dirs, latest, sv, run, all, result, saved, started, nruns,
          rd, nreads, mdl, call, validation, svc, dm, fe, enc, kb, nn, inv, seg, cal, rfm, eoq, rop, split>>

regVars == <<dirs, latest>>
pipeVars == <<sv, run, all, result, saved, started, nruns>>
readVars == <<rd, nreads>>
modelVars == <<mdl, call>>
coreVars == <<model_dir, now, regVars, pipeVars, readVars, modelVars>>
fnVars == <<validation, svc, dm, fe, enc, kb, nn, inv, seg, cal, rfm, eoq, rop, split>>
otherThanValidation == <<svc, dm, fe, enc, kb, nn, inv, seg, cal, rfm, eoq, rop, split>>
otherThanSvc == <<validation, dm, fe, enc, kb, nn, inv, seg, cal, rfm, eoq, rop, split>>
otherThanDm == <<validation, svc, fe, enc, kb, nn, inv, seg, cal, rfm, eoq, rop, split>>
otherThanFe == <<validation, svc, dm, enc, kb, nn, inv, seg, cal, rfm, eoq, rop, split>>
otherThanEnc == <<validation, svc, dm, fe, kb, nn, inv, seg, cal, rfm, eoq, rop, split>>
otherThanKb == <<validation, svc, dm, fe, enc, nn, inv, seg, cal, rfm, eoq, rop, split>>
otherThanNn == <<validation, svc, dm, fe, enc, kb, inv, seg, cal, rfm, eoq, rop, split>>
otherThanInv == <<validation, svc, dm, fe, enc, kb, nn, seg, cal, rfm, eoq, rop, split>>
otherThanSeg == <<validation, svc, dm, fe, enc, kb, nn, inv, cal, rfm, eoq, rop, split>>
otherThanCal == <<validation, svc, dm, fe, enc, kb, nn, inv, seg, rfm, eoq, rop, split>>
otherThanRfm == <<validation, svc, dm, fe, enc, kb, nn, inv, seg, cal, eoq, rop, split>>
otherThanEoq == <<validation, svc, dm, fe, enc, kb, nn, inv, seg, cal, rfm, rop, split>>
otherThanRop == <<validation, svc, dm, fe, enc, kb, nn, inv, seg, cal, rfm, eoq, split>>
otherThanSplit == <<validation, svc, dm, fe, enc, kb, nn, inv, seg, cal, rfm, eoq, rop>>

\* ------------------------------------------------------------ path helpers
\* os.path.isabs
IsAbs(p) == Len(p) > 0 /\ p[1] = "/"

\* datetime.now().strftime('%Y%m%d_%H%M%S'): fixed-width zero-padded fields,
\* most significant first.  The model keeps the two fields that change
\* within a behaviour, minute and second.
Strftime(t) == <<t \div SecondsPerMinute, t % SecondsPerMinute>>

\* Python str comparison of two version names: lexicographic, and every field
\* is zero padded to a fixed width, so a field compares as its number
StrLess(a, b) ==
    \E i \in 1..Len(a) :
        /\ i <= Len(b)
        /\ a[i] < b[i]
        /\ \A j \in 1..(i - 1) : a[j] = b[j]

\* ------------------------------------------------------------------- files
NoMeta == [model_type |-> "", restaurant_id |-> 0, version |-> <<>>, metrics |-> ""]
AbsentModel == [st |-> "absent", data |-> 0]
AbsentMeta == [st |-> "absent", data |-> NoMeta]
EmptyDir == [model |-> AbsentModel, metadata |-> AbsentMeta]

Complete(d) == d.model.st = "complete" /\ d.metadata.st = "complete"

\* os.path.join(self.model_dir, model_type, f'restaurant_{id}', version)
ModelPath(dir, t, v) == [dir |-> dir, model_type |-> t, restaurant |-> RestaurantId, version |-> v]

\* ------------------------------------------------- registry, as read by os
\* entries of <model_dir>/t/restaurant_1/ : the version directories and,
\* when it was created, the symlink `latest`
Entries(t) ==
    {[kind |-> "version", name |-> v] : v \in DOMAIN dirs[t]}
        \cup (IF latest[t] = <<>> THEN {} ELSE {[kind |-> "latest", name |-> <<>>]})

\* What the kernel reaches by following <model_dir>/t/restaurant_1/latest:
\* <<target>> when the target names an existing version directory, else <<>>.
\* os.symlink stores its first argument verbatim.  An absolute target is
\* looked up from the root.  A relative target is looked up from the
\* directory that holds the link, whose only entries are version names
\* (digits) and `latest`: the first component of a relative model_dir is
\* found there only if it is the link itself.
ResolveLatest(t) ==
    IF latest[t] = <<>> THEN <<>>
    ELSE LET tg == latest[t][1] IN
         IF IsAbs(tg.dir)
         THEN IF tg.dir = model_dir /\ tg.version \in DOMAIN dirs[tg.model_type]
              THEN <<tg>> ELSE <<>>
         ELSE <<>>

\* os.path.exists(latest_link): follows the link
LatestExists(t) == ResolveLatest(t) # <<>>

\* os.path.lexists(latest_link): the directory entry itself
LatestEntry(t) == latest[t] # <<>>

\* the version directory a reader lands in when it opens a file below `latest`
LatestDir(t) == dirs[ResolveLatest(t)[1].model_type][ResolveLatest(t)[1].version]

\* ModelLoader.get_latest_model_path: <<"latest">> stands for the returned
\* path <model_dir>/t/restaurant_1/latest, <<>> for None
get_latest_model_path(t) == IF LatestExists(t) THEN <<"latest">> ELSE <<>>

\* os.path.isdir(os.path.join(model_dir, d))
IsDir(t, e) == IF e.kind = "latest" THEN LatestExists(t) ELSE TRUE

RECURSIVE SortedForward(_)
\* variant: sorted(versions) without reverse=True
SortedForward(S) ==
    IF S = {} THEN <<>>
    ELSE LET m == CHOOSE x \in S : \A y \in S : ~StrLess(y, x)
         IN <<m>> \o SortedForward(S \ {m})

RECURSIVE SortedReverse(_)
\* sorted(versions, reverse=True) on a set of version names
SortedReverse(S) ==
    IF S = {} THEN <<>>
    ELSE LET m == CHOOSE x \in S : \A y \in S : ~StrLess(x, y)
         IN <<m>> \o SortedReverse(S \ {m})

\* ModelLoader.list_model_versions
list_model_versions(t) ==
    IF Entries(t) = {} THEN <<>>
    ELSE SortedReverse({e.name : e \in {x \in Entries(t) : IsDir(t, x) /\ x.kind # "latest"}})

\* ------------------------------------------------------------ initial state
IdleSave == [pc |-> "idle", model_type |-> "", version |-> <<>>, model |-> 0, metrics |-> ""]
IdleRun == [pc |-> "idle", task |-> "", caller |-> "", metrics |-> "", trace |-> <<>>]
NoResult == [task |-> "", status |-> "", error |-> "", metrics |-> "", run |-> 0,
             trace |-> <<>>]
\* ret: what the train_all_models call handed to its caller
IdleAll == [pc |-> "idle", i |-> 0, attempted |-> {}, recorded |-> {}, ret |-> ""]
IdleReader == [op |-> "", t |-> "", pc |-> "idle", status |-> "", model |-> 0,
               meta |-> NoMeta, versions |-> <<>>, count |-> 0]
NoCall == [variant |-> "", op |-> "", outcome |-> "", was_trained |-> FALSE]
NoValidation == [op |-> ""]
\* DemandForecastModel.__init__: an unfitted Prophet, is_trained = False
NewDemandModel == [is_trained |-> FALSE, prophet |-> "unfitted", warnings |-> 0, trains |-> 0,
                   last |-> [op |-> ""]]
\* no model has recorded feature_names and no serving call was made
NoFeatures == [names |-> [t \in {"demand", "kitchen", "churn", "ltv"} |-> <<>>], last |-> [fn |-> ""]]
NoEncoder == [variant |-> "", is_trained |-> FALSE, trains |-> 0, categorical_features |-> {}, label_encoders |-> <<>>, trained_on |-> {}, last |-> [op |-> ""]]
NoKitchenCall == [op |-> ""]
NoPrediction == [op |-> ""]
NoRecommendation == [op |-> ""]
NoScorings == <<>>
NoRecord == [op |-> ""]
NoRfm == [op |-> ""]
NoOrderQuantity == [op |-> ""]
NoInventoryModel == [built |-> FALSE, op |-> ""]
NoSplit == [op |-> ""]
NoService == [kind |-> "", pc |-> "none", models |-> <<>>, loads |-> 0, calls |-> 0,
              used |-> <<>>, built |-> 0]

InitModels == [m \in ModelTypes |-> [is_trained |-> FALSE]]

\* ModelTrainingPipeline.__init__ and ModelLoader.__init__ on the same base
\* directory, before anything was trained
Init ==
    /\ model_dir \in ModelDirs
    /\ now = ClockStart
    /\ dirs = [t \in ModelTypes |-> <<>>]
    /\ latest = [t \in ModelTypes |-> <<>>]
    /\ sv = IdleSave
    /\ run = IdleRun
    /\ all = IdleAll
    /\ result = NoResult
    /\ saved = [t \in ModelTypes |-> <<>>]
    /\ started = [t \in ModelTypes |-> <<>>]
    /\ nruns = 0
    /\ rd = IdleReader
    /\ nreads = 0
    /\ mdl = InitModels
    /\ call = NoCall
    /\ validation = NoValidation
    /\ svc = NoService
    /\ dm = NewDemandModel
    /\ fe = NoFeatures
    /\ enc = NoEncoder
    /\ kb = NoKitchenCall
    /\ nn = NoPrediction
    /\ inv = NoRecommendation
    /\ seg = NoScorings
    /\ cal = NoRecord
    /\ rfm = NoRfm
    /\ eoq = NoOrderQuantity
    /\ rop = NoInventoryModel
    /\ split = NoSplit

\* the wall clock advances by one second
Tick ==
    /\ now < ClockStart + MaxTicks
    /\ now' = now + 1
    /\ UNCHANGED <<fnVars, model_dir, regVars, pipeVars, readVars, modelVars>>

\* ------------------------------------------------------- training pipeline
\* the statements of a train_<task> body, in program order
FullSteps == <<"extract", "validate", "process", "featurize", "split",
               "train", "evaluate", "persist">>

\* train_inventory_model has no featurize, split or evaluate statement
InventorySteps == <<"extract", "validate", "process", "train", "persist">>

StepsOf(task) == IF task = "inventory" THEN InventorySteps ELSE FullSteps

\* the statement that follows `step` in the body of train_<task>
After(task, step) ==
    LET s == StepsOf(task)
        i == CHOOSE k \in 1..Len(s) : s[k] = step
    IN s[i + 1]

\* variant: the extraction call placed ahead of the try statement
TryBlockAfterExtract ==
    {"validate", "process", "featurize", "split", "train", "evaluate", "persist"}

\* statements of train_<task> that lie inside its try: ... except Exception
TryBlock == {"extract", "validate", "process", "featurize", "split", "train",
             "evaluate", "persist"}

StartRun(task, caller) ==
    [pc |-> "extract", task |-> task, caller |-> caller, metrics |-> "", trace |-> <<>>]

\* the returned dictionary, with the statements the run completed
Success(task, metrics, tr) ==
    [task |-> task, status |-> "success", error |-> "", metrics |-> metrics, run |-> nruns,
     trace |-> tr]

Error(task, msg, tr) ==
    [task |-> task, status |-> "error", error |-> msg, metrics |-> "", run |-> nruns,
     trace |-> tr]

\* train_<task> hands `res` back to its caller.  Called from train_all_models,
\* the caller then executes results['models'][<task>] = res on the container
\* it created, which for a list raises TypeError out of train_all_models;
\* for a dict it stores the result and goes on with the next task, and after
\* the last task and the summary the body ends without a return statement,
\* so the call evaluates to None.
Return(res) ==
    /\ result' = res
    /\ IF run.caller = "all"
       THEN IF ModelsContainer = "list"
            THEN /\ all' = [all EXCEPT !.pc = "raised", !.ret = "TypeError"]
                 /\ run' = IdleRun
                 /\ nruns' = nruns
            ELSE IF all.i < Len(TrainOrder)
                 THEN /\ all' = [all EXCEPT !.i = @ + 1,
                                            !.recorded = @ \cup {run.task},
                                            !.attempted = @ \cup {TrainOrder[all.i + 1]}]
                      /\ run' = StartRun(TrainOrder[all.i + 1], "all")
                      /\ nruns' = nruns + 1
                 ELSE /\ all' = [all EXCEPT !.pc = "returned",
                                            !.recorded = @ \cup {run.task},
                                            !.ret = "None"]
                      /\ run' = IdleRun
                      /\ nruns' = nruns
       ELSE /\ all' = all
            /\ run' = IdleRun
            /\ nruns' = nruns

\* an exception raised by statement `step` of train_<task>: the except clause
\* turns it into an error result when the statement is inside the try block,
\* otherwise it leaves train_<task>
Raise(step, msg, tr) ==
    IF step \in TryBlock
    THEN Return(Error(run.task, msg, tr))
    ELSE Return([Error(run.task, msg, tr) EXCEPT !.status = "exception"])

\* a caller (a script, a scheduler) calls train_<task> directly
CallTrain(task) ==
    /\ run.pc = "idle"
    /\ all.pc # "running"
    /\ nruns < MaxRuns
    /\ run' = StartRun(task, "direct")
    /\ nruns' = nruns + 1
    /\ result' = NoResult
    /\ UNCHANGED <<fnVars, model_dir, now, regVars, sv, all, saved, started, readVars, modelVars>>

\* train_models.main calls train_all_models, which builds `results` and
\* calls train_demand_model
CallTrainAll ==
    /\ run.pc = "idle"
    /\ all.pc = "idle"
    /\ nruns < MaxRuns
    /\ all' = [pc |-> "running", i |-> 1, attempted |-> {TrainOrder[1]}, recorded |-> {},
                ret |-> ""]
    /\ run' = StartRun(TrainOrder[1], "all")
    /\ nruns' = nruns + 1
    /\ result' = NoResult
    /\ UNCHANGED <<fnVars, model_dir, now, regVars, sv, saved, started, readVars, modelVars>>

\* a statement of the body completes and control moves to the next one
Advance(step) ==
    run' = [run EXCEPT !.pc = After(run.task, step), !.trace = Append(@, step)]

\* self.data_extractor.extract_*(...) returns the raw data
Extract ==
    /\ run.pc = "extract"
    /\ Advance("extract")
    /\ UNCHANGED <<fnVars, model_dir, now, regVars, sv, all, result, saved, started, nruns, readVars, modelVars>>

\* validation = self.data_validator.validate_*(raw); not valid raises ValueError
Validate ==
    /\ run.pc = "validate"
    /\ \E valid \in BOOLEAN :
        IF valid
        THEN /\ Advance("validate")
             /\ UNCHANGED <<all, result, nruns>>
        ELSE Raise("validate", "Data validation failed", Append(run.trace, "validate"))
    /\ UNCHANGED <<fnVars, model_dir, now, regVars, sv, saved, started, readVars, modelVars>>

\* self.data_processor.process_*(raw)
Process ==
    /\ run.pc = "process"
    /\ Advance("process")
    /\ UNCHANGED <<fnVars, model_dir, now, regVars, sv, all, result, saved, started, nruns, readVars, modelVars>>

\* the loop that builds X_list / y_list with the feature engineer
Featurize ==
    /\ run.pc = "featurize"
    /\ Advance("featurize")
    /\ UNCHANGED <<fnVars, model_dir, now, regVars, sv, all, result, saved, started, nruns, readVars, modelVars>>

\* split_idx = int(len(X) * (1 - test_size)) and the slices
Split ==
    /\ run.pc = "split"
    /\ Advance("split")
    /\ UNCHANGED <<fnVars, model_dir, now, regVars, sv, all, result, saved, started, nruns, readVars, modelVars>>

\* model = <Model>(); model.train(...)
Train ==
    /\ run.pc = "train"
    /\ Advance("train")
    /\ UNCHANGED <<fnVars, model_dir, now, regVars, sv, all, result, saved, started, nruns, readVars, modelVars>>

\* metrics = model.evaluate(X_test, y_test)
Evaluate ==
    /\ run.pc = "evaluate"
    /\ \E m \in MetricsVals :
        run' = [run EXCEPT !.pc = After(run.task, "evaluate"),
                           !.trace = Append(@, "evaluate"),
                           !.metrics = m]
    /\ UNCHANGED <<fnVars, model_dir, now, regVars, sv, all, result, saved, started, nruns, readVars, modelVars>>

\* a statement before the save raises (extraction fails, a column is missing,
\* the inventory model gets fewer than 30 rows, ...)
StepRaises ==
    /\ run.pc \in {"extract", "validate", "process", "featurize", "split", "train", "evaluate"}
    /\ Raise(run.pc, "exception", run.trace)
    /\ UNCHANGED <<fnVars, model_dir, now, regVars, sv, saved, started, readVars, modelVars>>

\* ------------------------------------------------------------- _save_model
\* dirs[t] with the file `f` of version directory v replaced
WithFile(t, v, f, val) == [dirs EXCEPT ![t] = [@ EXCEPT ![v] = [@ EXCEPT ![f] = val]]]

\* variant: every train_<task> passes {} as metrics, as train_inventory_model does
SaveMetricsEmpty == EmptyMetrics

\* the metrics argument of the _save_model call of train_<task>
SaveMetrics == IF run.task = "inventory" THEN EmptyMetrics ELSE run.metrics

\* variant: _save_model prunes the pair's older versions when it makes the
\* new directory
PersistPruning ==
    /\ run.pc = "persist"
    /\ LET v == Strftime(now) IN
        /\ sv' = [pc |-> "dump", model_type |-> run.task, version |-> v,
                  model |-> nruns, metrics |-> SaveMetrics]
        /\ dirs' = [dirs EXCEPT ![run.task] = (v :> EmptyDir)]
    /\ started' = [started EXCEPT ![run.task] = Append(@, [version |-> Strftime(now), time |-> now])]
    /\ run' = [run EXCEPT !.pc = "saving", !.trace = Append(@, "persist")]
    /\ UNCHANGED <<fnVars, model_dir, now, latest, all, result, saved, nruns, readVars, modelVars>>

\* self._save_model(model, <task>, metrics) is called: version is read off the
\* clock and os.makedirs(model_path, exist_ok=True) creates the directory
\* unless a directory of that name is already there
Persist ==
    /\ run.pc = "persist"
    /\ LET v == Strftime(now) IN
        /\ sv' = [pc |-> "dump", model_type |-> run.task, version |-> v,
                  model |-> nruns, metrics |-> SaveMetrics]
        /\ dirs' = IF v \in DOMAIN dirs[run.task] THEN dirs
                   ELSE [dirs EXCEPT ![run.task] = (v :> EmptyDir) @@ @]
    /\ started' = [started EXCEPT ![run.task] = Append(@, [version |-> Strftime(now), time |-> now])]
    /\ run' = [run EXCEPT !.pc = "saving", !.trace = Append(@, "persist")]
    /\ UNCHANGED <<fnVars, model_dir, now, latest, all, result, saved, nruns, readVars, modelVars>>

\* joblib.dump opens model.joblib for writing: the file exists and is
\* truncated, its content not yet written
SaveDumpOpen ==
    /\ sv.pc = "dump"
    /\ dirs' = WithFile(sv.model_type, sv.version, "model", [st |-> "partial", data |-> 0])
    /\ sv' = [sv EXCEPT !.pc = "dumping"]
    /\ UNCHANGED <<fnVars, model_dir, now, latest, run, all, result, saved, started, nruns, readVars, modelVars>>

\* variant: _save_model goes on to repoint `latest` without writing metadata.json
SaveDumpCloseNoMetadata ==
    /\ sv.pc = "dumping"
    /\ dirs' = WithFile(sv.model_type, sv.version, "model",
                        [st |-> "complete", data |-> sv.model])
    /\ sv' = [sv EXCEPT !.pc = "unlink"]
    /\ UNCHANGED <<fnVars, model_dir, now, latest, run, all, result, saved, started, nruns, readVars, modelVars>>

\* joblib.dump has written the whole model and closed the file
SaveDumpClose ==
    /\ sv.pc = "dumping"
    /\ dirs' = WithFile(sv.model_type, sv.version, "model",
                        [st |-> "complete", data |-> sv.model])
    /\ sv' = [sv EXCEPT !.pc = "meta"]
    /\ UNCHANGED <<fnVars, model_dir, now, latest, run, all, result, saved, started, nruns, readVars, modelVars>>

\* open(metadata_file, 'w')
SaveMetaOpen ==
    /\ sv.pc = "meta"
    /\ dirs' = WithFile(sv.model_type, sv.version, "metadata",
                        [st |-> "partial", data |-> NoMeta])
    /\ sv' = [sv EXCEPT !.pc = "writing"]
    /\ UNCHANGED <<fnVars, model_dir, now, latest, run, all, result, saved, started, nruns, readVars, modelVars>>

\* json.dump(metadata, f) and the end of the with block
SaveMetaClose ==
    /\ sv.pc = "writing"
    /\ dirs' = WithFile(sv.model_type, sv.version, "metadata",
                        [st |-> "complete",
                         data |-> [model_type |-> sv.model_type,
                                   restaurant_id |-> RestaurantId,
                                   version |-> sv.version,
                                   metrics |-> sv.metrics]])
    /\ sv' = [sv EXCEPT !.pc = "unlink"]
    /\ UNCHANGED <<fnVars, model_dir, now, latest, run, all, result, saved, started, nruns, readVars, modelVars>>

\* if os.path.exists(latest_link): os.remove(latest_link)
SaveUnlink ==
    /\ sv.pc = "unlink"
    /\ latest' = IF LatestExists(sv.model_type)
                 THEN [latest EXCEPT ![sv.model_type] = <<>>]
                 ELSE latest
    /\ sv' = [sv EXCEPT !.pc = "symlink"]
    /\ UNCHANGED <<fnVars, model_dir, now, dirs, run, all, result, saved, started, nruns, readVars, modelVars>>

\* os.symlink(model_path, latest_link), then _save_model returns and
\* train_<task> returns its success dictionary (without a 'metrics' key in
\* train_inventory_model).  symlink raises
\* FileExistsError when the entry `latest` is still there.
SaveSymlink ==
    /\ sv.pc = "symlink"
    /\ IF LatestEntry(sv.model_type)
       THEN /\ Raise("persist", "FileExistsError", run.trace)
            /\ UNCHANGED <<latest, saved>>
       ELSE /\ latest' = [latest EXCEPT ![sv.model_type] =
                             <<ModelPath(model_dir, sv.model_type, sv.version)>>]
            /\ saved' = [saved EXCEPT ![sv.model_type] =
                             Append(@, [version |-> sv.version, model |-> sv.model,
                                        metrics |-> sv.metrics])]
            /\ Return(Success(run.task,
                              IF run.task = "inventory" THEN "" ELSE sv.metrics,
                              run.trace))
    /\ sv' = IdleSave
    /\ UNCHANGED <<fnVars, model_dir, now, dirs, started, readVars, modelVars>>

\* joblib.dump or json.dump raises while its file is open (disk full, an
\* object that cannot be serialised): the file stays as far as it was written
SaveRaises ==
    /\ sv.pc \in {"dumping", "writing"}
    /\ Raise("persist", "exception", run.trace)
    /\ sv' = IdleSave
    /\ UNCHANGED <<fnVars, model_dir, now, regVars, saved, started, readVars, modelVars>>

\* -------------------------------------------------------------- ModelLoader
\* a serving process starts a ModelLoader call
BeginRead ==
    /\ rd.pc \in {"idle", "done"}
    /\ nreads < MaxReads
    /\ nreads' = nreads + 1

\* get_latest_model_path(t) called on its own: one os.path.exists
GetLatestModelPath ==
    /\ \E t \in ModelTypes :
        /\ BeginRead
        /\ rd' = [IdleReader EXCEPT !.op = "get_latest_model_path", !.t = t, !.pc = "done",
                                    !.status = IF get_latest_model_path(t) = <<>>
                                               THEN "none" ELSE "path"]
    /\ UNCHANGED <<fnVars, model_dir, now, regVars, pipeVars, modelVars>>

\* load_model / get_model_metadata / get_model_info begin with
\* model_path = self.get_latest_model_path(...); None ends load_model and
\* get_model_metadata with None
FollowLatest ==
    /\ \E t \in ModelTypes, op \in {"load_model", "get_model_metadata", "get_model_info"} :
        /\ BeginRead
        /\ rd' = [IdleReader EXCEPT
                    !.op = op, !.t = t,
                    !.status = IF get_latest_model_path(t) = <<>> THEN "none" ELSE "path",
                    !.pc = IF get_latest_model_path(t) # <<>> THEN "open"
                           ELSE IF op = "get_model_info" THEN "list" ELSE "done"]
    /\ UNCHANGED <<fnVars, model_dir, now, regVars, pipeVars, modelVars>>

\* joblib.load(os.path.join(model_path, "model.joblib")): the path goes
\* through `latest` again; a missing or incomplete file raises and the
\* except clause returns None
LoadModelRead ==
    /\ rd.op = "load_model" /\ rd.pc = "open"
    /\ rd' = IF LatestExists(rd.t) /\ LatestDir(rd.t).model.st = "complete"
             THEN [rd EXCEPT !.pc = "done", !.status = "ok",
                             !.model = LatestDir(rd.t).model.data]
             ELSE [rd EXCEPT !.pc = "done", !.status = "error"]
    /\ UNCHANGED <<fnVars, model_dir, now, regVars, pipeVars, nreads, modelVars>>

\* open(metadata_file) and json.load, in get_model_metadata and in the
\* get_model_metadata call of get_model_info
MetadataRead ==
    /\ rd.op \in {"get_model_metadata", "get_model_info"} /\ rd.pc = "open"
    /\ LET next == IF rd.op = "get_model_info" THEN "list" ELSE "done" IN
       rd' = IF LatestExists(rd.t) /\ LatestDir(rd.t).metadata.st = "complete"
             THEN [rd EXCEPT !.pc = next, !.status = "ok",
                             !.meta = LatestDir(rd.t).metadata.data]
             ELSE [rd EXCEPT !.pc = next, !.status = "error"]
    /\ UNCHANGED <<fnVars, model_dir, now, regVars, pipeVars, nreads, modelVars>>

\* list_model_versions(t) called on its own
ListModelVersions ==
    /\ \E t \in ModelTypes :
        /\ BeginRead
        /\ rd' = [IdleReader EXCEPT !.op = "list_model_versions", !.t = t, !.pc = "done",
                                    !.status = "ok",
                                    !.versions = list_model_versions(t),
                                    !.count = Len(list_model_versions(t))]
    /\ UNCHANGED <<fnVars, model_dir, now, regVars, pipeVars, modelVars>>

\* get_model_info: versions = self.list_model_versions(...) and the returned
\* dictionary with 'all_versions' and 'version_count': len(versions)
ModelInfoList ==
    /\ rd.op = "get_model_info" /\ rd.pc = "list"
    /\ rd' = [rd EXCEPT !.pc = "done",
                        !.versions = list_model_versions(rd.t),
                        !.count = Len(list_model_versions(rd.t))]
    /\ UNCHANGED <<fnVars, model_dir, now, regVars, pipeVars, nreads, modelVars>>

\* ------------------------------------------------------------ model objects
\* InventoryOptimizationModel.train: fewer rows than this raise ValueError
MinHistoryRows == 30

\* the public operations of each model class, other than train
OpsOf(v) ==
    CASE v = "demand" -> {"predict", "predict_with_confidence", "evaluate",
                          "get_feature_importance"}
      [] v = "kitchen" -> {"predict", "predict_with_confidence", "evaluate",
                           "get_feature_importance"}
      [] v = "churn" -> {"predict_proba", "predict", "get_risk_segments", "evaluate",
                         "get_feature_importance"}
      [] v = "ltv" -> {"predict", "get_ltv_segments", "evaluate", "get_feature_importance"}
      [] v = "inventory" -> {"predict_reorder_point", "predict_order_quantity",
                             "predict_stock_forecast", "get_recommendations",
                             "optimize_inventory", "evaluate"}

\* the methods whose body starts with `if not self.is_trained: raise ValueError`
ChecksTrained ==
    {<<"demand", "predict">>, <<"demand", "get_feature_importance">>,
     <<"kitchen", "predict">>, <<"kitchen", "get_feature_importance">>,
     <<"churn", "predict_proba">>, <<"churn", "get_feature_importance">>,
     <<"ltv", "predict">>, <<"ltv", "get_feature_importance">>,
     <<"inventory", "predict_reorder_point">>}

\* the methods of the same object a method calls first, before it computes
\* anything of its own; <<>> when it calls none
FirstCall(v, op) ==
    CASE v \in {"demand", "kitchen"} /\ op \in {"predict_with_confidence", "evaluate"}
            -> <<"predict">>
      [] v = "churn" /\ op \in {"predict", "get_risk_segments"} -> <<"predict_proba">>
      [] v = "churn" /\ op = "evaluate" -> <<"predict">>
      [] v = "ltv" /\ op \in {"get_ltv_segments", "evaluate"} -> <<"predict">>
      [] v = "inventory" /\ op = "optimize_inventory" -> <<"predict_order_quantity">>
      [] OTHER -> <<>>

RECURSIVE RaisesUntrained(_, _)
\* whether invoking op on an untrained model of class v raises
RaisesUntrained(v, op) ==
    \/ <<v, op>> \in ChecksTrained
    \/ /\ FirstCall(v, op) # <<>>
       /\ RaisesUntrained(v, FirstCall(v, op)[1])

\* model.train(...) on the object of class v.  The inventory model raises
\* before it sets is_trained when it gets fewer than MinHistoryRows rows; the
\* others set is_trained after scaler and estimator were fitted, which may raise.
TrainModel ==
    /\ \E v \in ModelTypes, rows \in {MinHistoryRows - 1, MinHistoryRows}, fit_ok \in BOOLEAN :
        LET raises == IF v = "inventory" THEN rows < MinHistoryRows ELSE ~fit_ok IN
        /\ mdl' = IF raises THEN mdl ELSE [mdl EXCEPT ![v].is_trained = TRUE]
        /\ call' = [variant |-> v, op |-> "train",
                    outcome |-> IF raises THEN "error" ELSE "result",
                    was_trained |-> mdl[v].is_trained]
    /\ UNCHANGED <<fnVars, model_dir, now, regVars, pipeVars, readVars>>

\* a caller invokes one of the other operations
InvokeOp ==
    /\ \E v \in ModelTypes :
        \E op \in OpsOf(v) :
            call' = [variant |-> v, op |-> op,
                     outcome |-> IF ~mdl[v].is_trained /\ RaisesUntrained(v, op)
                                 THEN "error" ELSE "result",
                     was_trained |-> mdl[v].is_trained]
    /\ UNCHANGED <<fnVars, model_dir, now, regVars, pipeVars, readVars, mdl>>

\* ------------------------------------------------------------ specification
\* the statements of a train_<task> call and of its _save_model
TrainSteps ==
    \/ Extract \/ Validate \/ Process \/ Featurize \/ Split \/ Train \/ Evaluate
    \/ StepRaises
    \/ Persist \/ SaveDumpOpen \/ SaveDumpClose \/ SaveMetaOpen \/ SaveMetaClose
    \/ SaveUnlink \/ SaveSymlink \/ SaveRaises

\* the model types trained in SpecRegistry
RegistryTasks == {TrainOrder[i] : i \in 1..MaxTasks}

\* the registry under concurrency: the pipeline trains and saves while a
\* serving process calls the ModelLoader
NextRegistry ==
    \/ Tick
    \/ \E task \in RegistryTasks : CallTrain(task)
    \/ TrainSteps
    \/ GetLatestModelPath \/ FollowLatest \/ LoadModelRead \/ MetadataRead
    \/ ListModelVersions \/ ModelInfoList

SpecRegistry == Init /\ [][NextRegistry]_vars

\* the pipeline alone: the five train_<task> methods and train_all_models
NextPipeline ==
    \/ Tick
    \/ \E task \in ModelTypes : CallTrain(task)
    \/ CallTrainAll
    \/ TrainSteps

SpecPipeline == Init /\ [][NextPipeline]_vars

\* the five model classes on their own: train and the other operations
\* called in any order
NextModels == TrainModel \/ InvokeOp

SpecModels == Init /\ [][NextModels]_vars

\* ---------------------------------------------------------- DataValidator
\* rows of the DataFrames handed to a validator
MaxRows == 2

\* the two copies of the class in the repository
ValidatorCopies == {"src", "backend"}

OrdersRequired == {"id", "restaurant_id", "created_at", "grand_total"}
KitchenRequired == {"station_id", "assigned_at", "completed_at", "prep_time_minutes"}
CustomerRequired == {"customer_id", "total_orders", "total_spent"}
InventoryRequired == {"item_id", "qty_base"}

\* A DataFrame, as far as a validator looks at it: the required columns it
\* has, its number of rows, whether a required column holds a null, the
\* columns holding a negative value, whether created_at is timezone-aware
\* and whether it holds a date in the future.  Only a frame with rows holds
\* values.
DataFrames(required) ==
    {df \in [columns : SUBSET required, n : 0..MaxRows, nulls : BOOLEAN,
             negative : SUBSET required, tz_aware : BOOLEAN, future : BOOLEAN] :
        /\ df.negative \subseteq df.columns
        /\ df.n = 0 => (~df.nulls /\ df.negative = {} /\ ~df.future)
        /\ df.nulls => df.columns # {}
        /\ (df.future \/ df.tz_aware) => "created_at" \in df.columns}

\* the dictionary a validator returns
Report(issues, df) ==
    [outcome |-> "returned", exc |-> "", valid |-> (Len(issues) = 0), issues |-> issues,
     record_count |-> df.n]

\* an exception leaves the validator
Raised(exc) ==
    [outcome |-> "raised", exc |-> exc, valid |-> FALSE, issues |-> <<>>, record_count |-> 0]

\* the two exceptions pandas raises out of a validator: indexing an absent
\* column, and comparing a timezone-aware column with a naive Timestamp
RaisedKeyError == Raised("KeyError")
RaisedTypeError == Raised("TypeError")

\* issues.append(msg) when cond holds
AppendIf(issues, cond, msg) == IF cond THEN Append(issues, msg) ELSE issues

\* missing_cols = set(required_cols) - set(df.columns); the issue it appends
MissingIssue(required, df) ==
    AppendIf(<<>>, required \ df.columns # {}, "Missing columns")

\* DataValidator.validate_orders.  df[required_cols] raises KeyError when a
\* required column is absent.  The src copy compares created_at with the
\* timezone-naive pd.Timestamp.now(), which raises TypeError for a
\* timezone-aware column; the backend copy picks a UTC now for such a column.
validate_orders(copy, df) ==
    LET i1 == MissingIssue(OrdersRequired, df)
        i2 == AppendIf(i1, df.nulls, "Null values found")
        i3 == AppendIf(i2, "grand_total" \in df.negative, "Negative grand_total values found")
        i4 == AppendIf(i3, df.future, "Future dates found in created_at")
    IN IF ~(OrdersRequired \subseteq df.columns) THEN RaisedKeyError
       ELSE IF copy = "src" /\ df.tz_aware THEN RaisedTypeError
       ELSE Report(i4, df)

\* DataValidator.validate_kitchen_data: df['prep_time_minutes'] raises
\* KeyError when the column is absent
validate_kitchen_data(copy, df) ==
    LET i1 == MissingIssue(KitchenRequired, df)
        i2 == AppendIf(i1, "prep_time_minutes" \in df.negative,
                       "Negative prep_time_minutes values found")
    IN IF "prep_time_minutes" \notin df.columns THEN RaisedKeyError
       ELSE Report(i2, df)

\* DataValidator.validate_customer_data
validate_customer_data(copy, df) ==
    LET i1 == MissingIssue(CustomerRequired, df)
        i2 == AppendIf(i1, "total_orders" \in df.negative, "Negative total_orders values found")
        i3 == AppendIf(i2, "total_spent" \in df.negative, "Negative total_spent values found")
    IN IF "total_orders" \notin df.columns THEN RaisedKeyError
       ELSE IF "total_spent" \notin df.columns THEN RaisedKeyError
       ELSE Report(i3, df)

\* DataValidator.validate_inventory_data (backend copy only): it indexes no column
validate_inventory_data(copy, df) ==
    LET i1 == MissingIssue(InventoryRequired, df)
        i2 == AppendIf(i1, df.n = 0, "No stock movement records found")
    IN Report(i2, df)

\* a caller hands a DataFrame to a validator (the class keeps no state
\* between calls: one call per behaviour)
Validated(op, copy, required, df, res) ==
    /\ validation.op = ""
    /\ validation' = [op |-> op, copy |-> copy, missing |-> required \ df.columns, df |-> df,
                      outcome |-> res.outcome, exc |-> res.exc, valid |-> res.valid,
                      issues |-> res.issues, record_count |-> res.record_count]
    /\ UNCHANGED <<coreVars, otherThanValidation>>

ValidateOrders ==
    \E copy \in ValidatorCopies, df \in DataFrames(OrdersRequired) :
        Validated("validate_orders", copy, OrdersRequired, df, validate_orders(copy, df))

ValidateKitchenData ==
    \E copy \in ValidatorCopies, df \in DataFrames(KitchenRequired) :
        Validated("validate_kitchen_data", copy, KitchenRequired, df,
                  validate_kitchen_data(copy, df))

ValidateCustomerData ==
    \E copy \in ValidatorCopies, df \in DataFrames(CustomerRequired) :
        Validated("validate_customer_data", copy, CustomerRequired, df,
                  validate_customer_data(copy, df))

ValidateInventoryData ==
    \E df \in DataFrames(InventoryRequired) :
        Validated("validate_inventory_data", "backend", InventoryRequired, df,
                  validate_inventory_data("backend", df))

NextValidator ==
    \/ ValidateOrders
    \/ ValidateKitchenData
    \/ ValidateCustomerData
    \/ ValidateInventoryData

SpecValidator == Init /\ [][NextValidator]_vars

\* ------------------------------------------------------ prediction services
\* service objects constructed, and calls made on one object, in one behaviour
MaxServices == 1
MaxCalls == 2

ServiceKinds == {"demand", "kitchen", "customer", "inventory"}

\* the model files a service's constructor loads, in the order it loads
\* them: CustomerPredictionService loads the churn model, then the LTV model
ModelsOf(kind) == IF kind = "customer" THEN <<"churn", "ltv">> ELSE <<kind>>

\* joblib.load(os.path.join(model_path, 'model.joblib')) with the path
\* get_latest_model_path returns for t: the open goes through `latest`.
\* <<data>> when the file is there and whole, <<>> when joblib.load raises.
JoblibLoad(t) ==
    IF LatestExists(t) /\ LatestDir(t).model.st = "complete"
    THEN <<LatestDir(t).model.data>>
    ELSE <<>>

\* <Kind>PredictionService(model_path): __init__ sets self.model = None and
\* calls _load_model
ConstructService ==
    /\ svc.pc \in {"none", "ready", "raised"}
    /\ svc.built < MaxServices
    /\ \E kind \in ServiceKinds :
        svc' = [NoService EXCEPT !.kind = kind, !.pc = "loading", !.built = svc.built + 1]
    /\ UNCHANGED <<coreVars, otherThanSvc>>

\* one joblib.load of _load_model / _load_models; the except clause logs
\* and re-raises, so the constructor raises and its caller gets no object
LoadStep ==
    /\ svc.pc = "loading"
    /\ LET t == ModelsOf(svc.kind)[Len(svc.models) + 1]
           m == JoblibLoad(t)
       IN svc' = IF m = <<>>
                 THEN [svc EXCEPT !.pc = "raised", !.models = <<>>, !.loads = @ + 1]
                 ELSE [svc EXCEPT !.models = Append(@, m[1]), !.loads = @ + 1,
                                  !.pc = IF Len(svc.models) + 1 = Len(ModelsOf(svc.kind))
                                         THEN "ready" ELSE "loading"]
    /\ UNCHANGED <<coreVars, otherThanSvc>>

\* variant: a call reads model.joblib again through the path
ServiceModelsReloaded ==
    [i \in 1..Len(ModelsOf(svc.kind)) |->
        IF JoblibLoad(ModelsOf(svc.kind)[i]) = <<>> THEN 0
        ELSE JoblibLoad(ModelsOf(svc.kind)[i])[1]]

\* the model objects a predict_* method works with: self.model, or
\* self.churn_model and self.ltv_model
ServiceModels == svc.models

\* a predict_* / get_* method is called on the constructed object
ServiceCall ==
    /\ svc.pc = "ready"
    /\ svc.calls < MaxCalls
    /\ svc' = [svc EXCEPT !.calls = @ + 1, !.used = ServiceModels]
    /\ UNCHANGED <<coreVars, otherThanSvc>>

\* a serving process constructs a service and calls it while the pipeline
\* trains and saves
NextService ==
    \/ Tick
    \/ \E task \in ModelTypes : CallTrain(task)
    \/ TrainSteps
    \/ ConstructService \/ LoadStep \/ ServiceCall

SpecService == Init /\ [][NextService]_vars

\* ---------------------------------------------------- DemandForecastModel
\* train calls on one object, and the range of a component's raw prediction
MaxTrains == 2
MaxPred == 2

\* ensemble_weight = 0.7, in tenths; Prophet gets the remaining tenths
EnsembleWeight == 7
Tenths == 10

\* raw predictions of the XGBoost and the Prophet component for one row
RawPreds == (0 - MaxPred)..MaxPred

\* np.maximum(a, b) on one element
Maximum(a, b) == IF a >= b THEN a ELSE b

\* variant: the weighted average whether or not Prophet is available
EnsemblePredWeighted(prophet, xgb_pred, prophet_pred) ==
    EnsembleWeight * xgb_pred + (Tenths - EnsembleWeight) * prophet_pred

\* ensemble_pred of predict, in tenths of an order: the weighted average when
\* self.prophet_model is not None, else xgb_pred
EnsemblePred(prophet, xgb_pred, prophet_pred) ==
    IF prophet # "none"
    THEN EnsembleWeight * xgb_pred + (Tenths - EnsembleWeight) * prophet_pred
    ELSE Tenths * xgb_pred

\* DemandForecastModel.train.  The scaler and XGBoost fit are outside the
\* try: when they raise, train raises before is_trained is set.
\* self.prophet_model.fit is inside it: it raises when Prophet cannot fit
\* the data, when the object was fitted before (Prophet fits once), and when
\* self.prophet_model is None after an earlier fallback (AttributeError);
\* the except clause logs a warning and sets self.prophet_model = None.
DemandTrain ==
    /\ dm.trains < MaxTrains
    /\ \E xgb_ok \in BOOLEAN, prophet_ok \in BOOLEAN :
        LET fit_raises == dm.prophet # "unfitted" \/ ~prophet_ok IN
        dm' = IF ~xgb_ok
              THEN [dm EXCEPT !.trains = @ + 1,
                              !.last = [op |-> "train", outcome |-> "raised",
                                        prophet_raised |-> FALSE, summary |-> "",
                                        warned |-> FALSE]]
              ELSE [dm EXCEPT !.trains = @ + 1,
                              !.is_trained = TRUE,
                              !.prophet = IF fit_raises THEN "none" ELSE "fitted",
                              !.warnings = IF fit_raises THEN @ + 1 ELSE @,
                              !.last = [op |-> "train", outcome |-> "returned",
                                        prophet_raised |-> fit_raises,
                                        summary |-> "trained", warned |-> fit_raises]]
    /\ UNCHANGED <<coreVars, otherThanDm>>

\* DemandForecastModel.predict on one row, the result in tenths of an order
DemandPredict ==
    /\ \E xgb_pred \in RawPreds, prophet_pred \in RawPreds :
        dm' = [dm EXCEPT !.last =
                 IF ~dm.is_trained
                 THEN [op |-> "predict", outcome |-> "raised", xgb_pred |-> xgb_pred,
                       prophet_pred |-> prophet_pred, value |-> 0]
                 ELSE [op |-> "predict", outcome |-> "returned", xgb_pred |-> xgb_pred,
                       prophet_pred |-> prophet_pred,
                       value |-> Maximum(EnsemblePred(dm.prophet, xgb_pred, prophet_pred), 0)]]
    /\ UNCHANGED <<coreVars, otherThanDm>>

NextDemand == DemandTrain \/ DemandPredict

SpecDemand == Init /\ [][NextDemand]_vars

\* -------------------------------------------------------- FeatureEngineer
\* a feature dictionary: features = {} and features[k] = v
EmptyDict == [k \in {} |-> 0]
Put(d, k, v) == [x \in DOMAIN d \cup {k} |-> IF x = k THEN v ELSE d[x]]

\* A float is held exactly: NaN is <<>>, any other number the fraction
\* <<numerator, denominator>> with a positive denominator.
NaN == <<>>
Float(x) == <<x, 1>>
IsPositive(q) == q # NaN /\ q[1] > 0
IsZero(q) == q # NaN /\ q[1] = 0

\* rows of the kitchen history: station, item, and prep_time_minutes, which
\* is <<>> for a null (started_at missing) and <<minutes>> otherwise; raw
\* rows can hold a zero or negative time
Stations == {1, 2}
MenuItems == {1, 2}
PrepTimes == {<<>>, <<0 - 4>>, <<0>>, <<4>>, <<8>>}
KitchenRows == [station_id : Stations, menu_item_id : MenuItems, prep_time_minutes : PrepTimes]
KitchenFrames == UNION {[1..n -> KitchenRows] : n \in 0..MaxRows}

\* the non-null values of column prep_time_minutes
PrepValues(rows) ==
    LET present == SelectSeq(rows, LAMBDA r : r.prep_time_minutes # <<>>)
    IN [i \in 1..Len(present) |-> present[i].prep_time_minutes[1]]

RECURSIVE SumOf(_)
SumOf(s) == IF s = <<>> THEN 0 ELSE Head(s) + SumOf(Tail(s))

RECURSIVE SumSquares(_)
SumSquares(s) == IF s = <<>> THEN 0 ELSE Head(s) * Head(s) + SumSquares(Tail(s))

\* the k-th smallest element of a non-empty sequence
KthSmallest(s, k) ==
    CHOOSE x \in {s[i] : i \in 1..Len(s)} :
        /\ Cardinality({i \in 1..Len(s) : s[i] < x}) < k
        /\ Cardinality({i \in 1..Len(s) : s[i] <= x}) >= k

\* pandas Series.mean / std / min / max / median: nulls are skipped, an
\* empty selection gives NaN, and std (ddof = 1) of a single value is NaN.
\* std is held by its square, the sample variance.
SeriesMean(v) == IF Len(v) = 0 THEN NaN ELSE <<SumOf(v), Len(v)>>
SeriesStd(v) ==
    IF Len(v) <= 1 THEN NaN
    ELSE <<Len(v) * SumSquares(v) - SumOf(v) * SumOf(v), Len(v) * (Len(v) - 1)>>
SeriesMin(v) == IF Len(v) = 0 THEN NaN ELSE Float(KthSmallest(v, 1))
SeriesMax(v) == IF Len(v) = 0 THEN NaN ELSE Float(KthSmallest(v, Len(v)))
SeriesMedian(v) ==
    IF Len(v) = 0 THEN NaN
    ELSE IF Len(v) % 2 = 1 THEN Float(KthSmallest(v, (Len(v) + 1) \div 2))
    ELSE <<KthSmallest(v, Len(v) \div 2) + KthSmallest(v, Len(v) \div 2 + 1), 2>>

\* the five statistics of column prep_time_minutes of `rows`
PrepStats(rows) ==
    LET v == PrepValues(rows) IN
    [avg_prep_time |-> SeriesMean(v), std_prep_time |-> SeriesStd(v),
     min_prep_time |-> SeriesMin(v), max_prep_time |-> SeriesMax(v),
     median_prep_time |-> SeriesMedian(v)]

\* the default values: 10.0, 2.0 (its square is 4), 5.0, 20.0, 10.0
DefaultPrepStats ==
    [avg_prep_time |-> Float(10), std_prep_time |-> Float(4),
     min_prep_time |-> Float(5), max_prep_time |-> Float(20),
     median_prep_time |-> Float(10)]

\* variant: a statistic other than the mean is left out when it is NaN
PutStatsObserved(d, st) ==
    LET PutIf(f, k) == IF st[k] = NaN THEN f ELSE Put(f, k, st[k])
    IN PutIf(PutIf(PutIf(PutIf(Put(d, "avg_prep_time", st.avg_prep_time), "std_prep_time"),
                         "min_prep_time"), "max_prep_time"), "median_prep_time")

\* features['avg_prep_time'] = ... to features['median_prep_time'] = ...
PutStats(d, st) ==
    Put(Put(Put(Put(Put(d, "avg_prep_time", st.avg_prep_time),
                        "std_prep_time", st.std_prep_time),
                    "min_prep_time", st.min_prep_time),
                "max_prep_time", st.max_prep_time),
            "median_prep_time", st.median_prep_time)

\* df[(df['station_id'] == station_id) & (df['menu_item_id'] == menu_item_id)]
ItemStationRows(df, station_id, menu_item_id) ==
    SelectSeq(df, LAMBDA r : r.station_id = station_id /\ r.menu_item_id = menu_item_id)

\* variant: the second tier taken over the whole history
StationRowsUnfiltered(df, station_id) == df

\* df[df['station_id'] == station_id]
StationRows(df, station_id) == SelectSeq(df, LAMBDA r : r.station_id = station_id)

\* a quotient a / b, held as the pair of its operands; 0.0 is 0 / 1
Quotient(a, b) == <<a, b>>
ZeroQuotient == Quotient(Float(0), Float(1))

\* FeatureEngineer.create_kitchen_features
create_kitchen_features(df, station_id, menu_item_id) ==
    LET item_station_df == ItemStationRows(df, station_id, menu_item_id)
        station_df == StationRows(df, station_id)
        features == IF Len(item_station_df) > 0
                    THEN PutStats(EmptyDict, PrepStats(item_station_df))
                    ELSE IF Len(station_df) > 0
                         THEN PutStats(EmptyDict, PrepStats(station_df))
                         ELSE PutStats(EmptyDict, DefaultPrepStats)
    IN Put(features, "item_complexity",
           IF IsPositive(features["avg_prep_time"])
           THEN Quotient(features["std_prep_time"], features["avg_prep_time"])
           ELSE ZeroQuotient)

\* the order history as create_demand_features reads it: its number of rows,
\* the rows in the hour 1, 7 and 30 days before the target, the rows and the
\* distinct hours of the 7- and 30-day windows before the target, and the
\* whole days between the first order and the target
DemandFrames ==
    {df \in [n : 0..MaxRows, lag1 : 0..MaxRows, lag7 : 0..MaxRows, lag30 : 0..MaxRows,
             win7 : 0..MaxRows, hours7 : 0..MaxRows, win30 : 0..MaxRows,
             hours30 : 0..MaxRows, age : 0..1] :
        /\ df.lag1 + df.lag7 + df.lag30 <= df.n
        /\ df.win7 <= df.win30 /\ df.win30 <= df.n
        /\ df.hours7 <= df.win7 /\ (df.win7 > 0 => df.hours7 > 0)
        /\ df.hours30 <= df.win30 /\ (df.win30 > 0 => df.hours30 > 0)
        /\ df.hours7 <= df.hours30
        /\ df.n = 0 => df.age = 0}

\* target_date: a weekday lunch hour and a weekend night hour
TargetDates ==
    {[hour |-> 12, weekday |-> 2, day |-> 14, month |-> 6],
     [hour |-> 3, weekday |-> 6, day |-> 1, month |-> 12]}

\* int(cond)
IntOf(cond) == IF cond THEN 1 ELSE 0

\* FeatureEngineer._get_rolling_avg: 0.0 for an empty period, else the mean
\* of the hourly counts
RollingAvg(rows, hours) == IF rows = 0 THEN Float(0) ELSE <<rows, hours>>

\* FeatureEngineer.create_demand_features; np.sin / np.cos are held by
\* their argument 2 * pi * <<a, b>>
create_demand_features(df, target_date) ==
    LET f1 == Put(EmptyDict, "hour", target_date.hour)
        f2 == Put(f1, "day_of_week", target_date.weekday)
        f3 == Put(f2, "day_of_month", target_date.day)
        f4 == Put(f3, "month", target_date.month)
        f5 == Put(f4, "is_weekend", IntOf(target_date.weekday >= 5))
        f6 == Put(f5, "is_peak_hour", IntOf(target_date.hour \in {12, 13, 18, 19, 20}))
        f7 == Put(f6, "hour_sin", <<target_date.hour, 24>>)
        f8 == Put(f7, "hour_cos", <<target_date.hour, 24>>)
        f9 == Put(f8, "day_sin", <<target_date.weekday, 7>>)
        f10 == Put(f9, "day_cos", <<target_date.weekday, 7>>)
        f11 == Put(f10, "orders_1d_ago", df.lag1)
        f12 == Put(f11, "orders_7d_ago", df.lag7)
        f13 == Put(f12, "orders_30d_ago", df.lag30)
        f14 == Put(f13, "orders_7d_avg", RollingAvg(df.win7, df.hours7))
        f15 == Put(f14, "orders_30d_avg", RollingAvg(df.win30, df.hours30))
    IN Put(f15, "days_since_start", IF df.n > 0 THEN df.age ELSE 0)

\* A customer row.  process_customer_data adds recency_days, frequency,
\* monetary and order_frequency to what extract_customer_data returns; a row
\* taken from the extractor as it is does not have them.
CustomerTiers == {"bronze", "silver", "gold"}
CustomerRows ==
    [processed : BOOLEAN, recency_days : {10, 75, 200}, frequency : {1, 20},
     monetary : {40, 1000}, current_tier : CustomerTiers]

\* _calculate_rfm_score with the recency boundaries exclusive
CalculateRfmScoreStrict(recency, frequency, monetary) ==
    LET recency_score == IF recency < 30 THEN 5 ELSE IF recency < 60 THEN 4
                         ELSE IF recency < 90 THEN 3 ELSE IF recency < 180 THEN 2 ELSE 1
        frequency_score == IF frequency >= 20 THEN 5 ELSE IF frequency >= 10 THEN 4
                           ELSE IF frequency >= 5 THEN 3 ELSE IF frequency >= 2 THEN 2 ELSE 1
        monetary_score == IF monetary >= 1000 THEN 5 ELSE IF monetary >= 500 THEN 4
                          ELSE IF monetary >= 200 THEN 3 ELSE IF monetary >= 50 THEN 2 ELSE 1
    IN <<recency_score + frequency_score + monetary_score, 3>>

\* FeatureEngineer._calculate_rfm_score, before round(.., 2)
CalculateRfmScore(recency, frequency, monetary) ==
    LET recency_score == IF recency <= 30 THEN 5 ELSE IF recency <= 60 THEN 4
                         ELSE IF recency <= 90 THEN 3 ELSE IF recency <= 180 THEN 2 ELSE 1
        frequency_score == IF frequency >= 20 THEN 5 ELSE IF frequency >= 10 THEN 4
                           ELSE IF frequency >= 5 THEN 3 ELSE IF frequency >= 2 THEN 2 ELSE 1
        monetary_score == IF monetary >= 1000 THEN 5 ELSE IF monetary >= 500 THEN 4
                          ELSE IF monetary >= 200 THEN 3 ELSE IF monetary >= 50 THEN 2 ELSE 1
    IN <<recency_score + frequency_score + monetary_score, 3>>

\* FeatureEngineer.create_customer_features: <<features>>, or <<>> when
\* customer_row['recency_days'] raises KeyError.  The columns whose value no
\* branch looks at are held as 0.
create_customer_features(customer_row) ==
    IF ~customer_row.processed THEN <<>>
    ELSE LET f1 == Put(EmptyDict, "recency_days", customer_row.recency_days)
             f2 == Put(f1, "frequency", customer_row.frequency)
             f3 == Put(f2, "monetary", customer_row.monetary)
             f4 == Put(f3, "current_points", 0)
             f5 == Put(f4, "lifetime_points", 0)
             f6 == Put(f5, "current_tier", customer_row.current_tier)
             f7 == Put(f6, "avg_order_value", 0)
             f8 == Put(f7, "days_since_signup", 0)
             f9 == Put(f8, "order_frequency", 0)
             f10 == Put(f9, "unique_order_days", 0)
         IN <<Put(f10, "rfm_score",
                  CalculateRfmScore(f10["recency_days"], f10["frequency"], f10["monetary"]))>>

InventoryRows ==
    [current_stock : {0, 5, 20}, reorder_level : {0, 10}, daily_consumption_rate : {0, 2}]

\* FeatureEngineer.create_inventory_features
create_inventory_features(inventory_row) ==
    LET f1 == Put(EmptyDict, "current_stock", inventory_row.current_stock)
        f2 == Put(f1, "min_level", 0)
        f3 == Put(f2, "reorder_level", inventory_row.reorder_level)
        f4 == Put(f3, "daily_consumption_rate", inventory_row.daily_consumption_rate)
        f5 == Put(f4, "consumption_last_30_days", 0)
        f6 == Put(f5, "avg_unit_cost", 0)
        f7 == Put(f6, "stock_status", "ok")
        f8 == Put(f7, "days_until_stockout", 0)
        f9 == Put(f8, "batch_count", 0)
        f10 == Put(f9, "stock_to_reorder_ratio",
                   IF inventory_row.reorder_level > 0
                   THEN <<inventory_row.current_stock, inventory_row.reorder_level>>
                   ELSE Float(1))
    IN Put(f10, "days_until_reorder",
           IF inventory_row.daily_consumption_rate > 0
           THEN <<inventory_row.current_stock - inventory_row.reorder_level,
                  inventory_row.daily_consumption_rate>>
           ELSE Float(999))

\* a train_<task>_model run may start: each run builds its own FeatureEngineer
\* and its own model, and a behaviour follows one of them
CanTrain == fe.names = NoFeatures.names /\ fe.last.fn = ""

\* a service of the task may be built: its model has been trained and saved
CanServe(task) == fe.names[task] # <<>> /\ fe.last.fn = ""

\* X = pd.DataFrame(X_list) and model.train: self.feature_names =
\* X_train.columns.tolist(), the union of the keys of the dictionaries
RecordNames(task, dicts) ==
    /\ fe' = [fe EXCEPT !.names[task] = <<UNION {DOMAIN d : d \in dicts}>>]
    /\ UNCHANGED <<coreVars, otherThanFe>>

\* train_kitchen_model: one dictionary per row of the processed history,
\* for that row's own station and item
TrainKitchenFeatures ==
    /\ CanTrain
    /\ \E df \in KitchenFrames :
        /\ Len(df) > 0
        /\ RecordNames("kitchen",
                       {create_kitchen_features(df, df[i].station_id, df[i].menu_item_id) :
                            i \in 1..Len(df)})

\* train_demand_model: one dictionary per hour of the history
TrainDemandFeatures ==
    /\ CanTrain
    /\ \E df \in DemandFrames :
        /\ df.n > 0
        /\ RecordNames("demand", {create_demand_features(df, t) : t \in TargetDates})

\* train_churn_model / train_ltv_model: one dictionary per processed customer
TrainCustomerFeatures ==
    /\ CanTrain
    /\ \E task \in {"churn", "ltv"}, r1 \in CustomerRows, r2 \in CustomerRows :
        /\ r1.processed /\ r2.processed
        /\ RecordNames(task, {create_customer_features(r1)[1], create_customer_features(r2)[1]})

\* a service (or any caller) has the FeatureEngineer build the dictionary it
\* predicts from; the object keeps no state between calls
Served(fn, task, features) ==
    /\ fe' = [fe EXCEPT !.last = [fn |-> fn, task |-> task,
                                  outcome |-> IF features = <<>> THEN "raised" ELSE "returned",
                                  keys |-> IF features = <<>> THEN {} ELSE DOMAIN features[1]]]
    /\ UNCHANGED <<coreVars, otherThanFe>>

\* KitchenPredictionService.predict_prep_time
ServeKitchenFeatures ==
    /\ CanServe("kitchen")
    /\ \E df \in KitchenFrames, station_id \in Stations, menu_item_id \in MenuItems :
        /\ fe' = [fe EXCEPT !.last =
                    [fn |-> "create_kitchen_features", task |-> "kitchen",
                     outcome |-> "returned", df |-> df, station_id |-> station_id,
                     menu_item_id |-> menu_item_id,
                     features |-> create_kitchen_features(df, station_id, menu_item_id),
                     keys |-> DOMAIN create_kitchen_features(df, station_id, menu_item_id)]]
        /\ UNCHANGED <<coreVars, otherThanFe>>

\* DemandPredictionService.predict_hourly and the other forecasts
ServeDemandFeatures ==
    /\ CanServe("demand")
    /\ \E df \in DemandFrames, t \in TargetDates :
        Served("create_demand_features", "demand", <<create_demand_features(df, t)>>)

\* CustomerPredictionService.predict_churn / predict_ltv
ServeCustomerFeatures ==
    \E task \in {"churn", "ltv"}, customer_row \in CustomerRows :
        CanServe(task) /\
        Served("create_customer_features", task, create_customer_features(customer_row))

\* create_inventory_features, which no model's training uses
ServeInventoryFeatures ==
    /\ fe.last.fn = ""
    /\ \E inventory_row \in InventoryRows :
        Served("create_inventory_features", "inventory",
               <<create_inventory_features(inventory_row)>>)

NextFeatures ==
    \/ TrainKitchenFeatures \/ TrainDemandFeatures \/ TrainCustomerFeatures
    \/ ServeKitchenFeatures \/ ServeDemandFeatures \/ ServeCustomerFeatures
    \/ ServeInventoryFeatures

SpecFeatures == Init /\ [][NextFeatures]_vars

\* ------------------------------------------- churn and LTV label encoders
\* the current_tier values in sorted order, as LabelEncoder.classes_ holds them
TierOrder == <<"bronze", "gold", "silver">>

\* LabelEncoder().fit: classes_ is the sorted sequence of the distinct values
LabelFit(values) == SelectSeq(TierOrder, LAMBDA c : c \in values)

\* variant: a label not in classes_ is encoded as Len(classes_)
LabelTransformLenient(classes, value) ==
    IF \E i \in 1..Len(classes) : classes[i] = value
    THEN <<(CHOOSE i \in 1..Len(classes) : classes[i] = value) - 1>>
    ELSE <<Len(classes)>>

\* LabelEncoder.transform of one value: <<its position in classes_>>, or <<>>
\* for the ValueError "y contains previously unseen labels"
LabelTransform(classes, value) ==
    IF \E i \in 1..Len(classes) : classes[i] = value
    THEN <<(CHOOSE i \in 1..Len(classes) : classes[i] = value) - 1>>
    ELSE <<>>

\* the current_tier column of a frame with rows
TierColumns == UNION {[1..n -> CustomerTiers] : n \in 1..MaxRows}

\* the operations that encode X_test, each through predict_proba / predict
EncodingOps(v) ==
    IF v = "churn" THEN {"predict_proba", "predict", "get_risk_segments", "evaluate"}
    ELSE {"predict", "get_ltv_segments", "evaluate"}

\* model = CustomerChurnModel() / CustomerLTVModel()
ConstructCustomerModel ==
    /\ enc.variant = ""
    /\ \E v \in {"churn", "ltv"} : enc' = [enc EXCEPT !.variant = v]
    /\ UNCHANGED <<coreVars, otherThanEnc>>

\* model.train(X_train, y_train, categorical_features), once per object as
\* the pipeline does: the encoders are fitted and stored, then the scaler
\* and the estimator are fitted, which raises for a string column left
\* unencoded and may raise otherwise, and only then is_trained is set
TrainCustomerModel ==
    /\ enc.variant # "" /\ enc.trains = 0
    /\ \E column \in TierColumns, categorical_features \in {{}, {"current_tier"}},
          fit_ok \in BOOLEAN :
        LET values == {column[i] : i \in 1..Len(column)}
            encoded == "current_tier" \in categorical_features
            raises == ~encoded \/ ~fit_ok
        IN enc' = [enc EXCEPT !.trains = 1,
                              !.last = [op |-> "train"],
                              !.categorical_features = categorical_features,
                              !.label_encoders = IF encoded THEN <<LabelFit(values)>> ELSE @,
                              !.is_trained = ~raises,
                              !.trained_on = IF raises THEN @ ELSE values]
    /\ UNCHANGED <<coreVars, otherThanEnc>>

\* predict_proba / predict and the operations that reach them: the trained
\* check, X_test.copy(), le.transform of the column, then scaler and
\* estimator on the encoded copy
PredictCustomerModel ==
    /\ enc.variant # ""
    /\ \E op \in EncodingOps(enc.variant), column \in TierColumns :
        LET codes == [i \in 1..Len(column) |->
                        IF "current_tier" \in enc.categorical_features
                           /\ enc.label_encoders # <<>>
                        THEN LabelTransform(enc.label_encoders[1], column[i])
                        ELSE <<column[i]>>]
            unseen == \E i \in 1..Len(column) : codes[i] = <<>>
        IN enc' = [enc EXCEPT !.last =
                     [op |-> op, column |-> column,
                      encoders_before |-> enc.label_encoders,
                      outcome |-> IF ~enc.is_trained \/ unseen THEN "raised" ELSE "returned",
                      X_encoded |-> IF ~enc.is_trained \/ unseen THEN <<>> ELSE codes]]
    /\ UNCHANGED <<coreVars, otherThanEnc>>

NextEncoder == ConstructCustomerModel \/ TrainCustomerModel \/ PredictCustomerModel

SpecEncoder == Init /\ [][NextEncoder]_vars

\* ------------------------------------------------ KitchenPredictionService
\* orders of a batch
MaxOrders == 2

\* what the fitted estimator answers for one row, before the clamp
KitchenRawPreds == {0 - 1, 0, 2}

\* the orders of a batch: dictionaries with station_id and menu_item_id
OrderLists ==
    UNION {[1..n -> [station_id : Stations, menu_item_id : MenuItems]] : n \in 0..MaxOrders}

\* variant: the estimator's answer handed on as it is
KitchenModelPredictRaw(raw) == <<raw>>

\* KitchenPerformanceModel.predict on one row: np.maximum(predictions, 0)
KitchenModelPredict(raw) == <<Maximum(raw, 0)>>

\* KitchenPerformanceModel.predict_with_confidence on one row; np.std of a
\* single prediction is 0
KitchenPredictWithConfidence(raw) ==
    LET predictions == KitchenModelPredict(raw)
        std_pred == 0
    IN [predictions |-> predictions,
        lower_bound |-> <<Maximum(predictions[1] - std_pred, 0)>>,
        upper_bound |-> <<predictions[1] + std_pred>>]

\* d[k] on a dictionary: <<value>>, or <<>> for KeyError
GetItem(d, k) == IF k \in DOMAIN d THEN <<d[k]>> ELSE <<>>

\* KitchenPredictionService.predict_prep_time: the features, the model's
\* answer, and the dictionary built from pred_result['prediction'],
\* pred_result['lower_bound'] and pred_result['upper_bound']
predict_prep_time(station_id, menu_item_id, historical_kitchen_data, raw) ==
    LET features == create_kitchen_features(historical_kitchen_data, station_id, menu_item_id)
        pred_result == KitchenPredictWithConfidence(raw)
        prediction == GetItem(pred_result, "prediction")
        lower_bound == GetItem(pred_result, "lower_bound")
        upper_bound == GetItem(pred_result, "upper_bound")
    IN IF prediction = <<>> \/ lower_bound = <<>> \/ upper_bound = <<>>
       THEN [outcome |-> "raised", exc |-> "KeyError", keys |-> DOMAIN features, value |-> <<>>]
       ELSE [outcome |-> "returned", exc |-> "", keys |-> DOMAIN features,
             value |-> <<[station_id |-> station_id, menu_item_id |-> menu_item_id,
                          predicted_prep_time_minutes |-> prediction[1][1],
                          lower_bound_minutes |-> lower_bound[1][1],
                          upper_bound_minutes |-> upper_bound[1][1]]>>]

RECURSIVE BatchLoop(_, _, _, _, _)
\* for order in orders: predictions.append(self.predict_prep_time(...));
\* an exception of a call leaves the loop and the method
BatchLoop(orders, historical_kitchen_data, raws, i, predictions) ==
    IF i > Len(orders) THEN [outcome |-> "returned", exc |-> "", predictions |-> predictions]
    ELSE LET pred == predict_prep_time(orders[i].station_id, orders[i].menu_item_id,
                                       historical_kitchen_data, raws[i])
         IN IF pred.outcome = "raised"
            THEN [outcome |-> "raised", exc |-> pred.exc, predictions |-> predictions]
            ELSE BatchLoop(orders, historical_kitchen_data, raws, i + 1,
                           Append(predictions, pred.value[1]))

\* max([...]) of a non-empty list
MaxOf(s) == CHOOSE m \in {s[i] : i \in 1..Len(s)} : \A i \in 1..Len(s) : s[i] <= m

\* a caller invokes predict_prep_time
PredictPrepTime ==
    /\ kb.op = ""
    /\ \E df \in KitchenFrames, station_id \in Stations, menu_item_id \in MenuItems,
          raw \in KitchenRawPreds :
        LET pred == predict_prep_time(station_id, menu_item_id, df, raw) IN
        kb' = [op |-> "predict_prep_time", n |-> 1,
               orders |-> <<[station_id |-> station_id, menu_item_id |-> menu_item_id]>>,
               raws |-> <<raw>>, outcome |-> pred.outcome, exc |-> pred.exc,
               item_predictions |-> pred.value]
    /\ UNCHANGED <<coreVars, otherThanKb>>

\* KitchenPredictionService.predict_batch_prep_time
PredictBatchPrepTime ==
    /\ kb.op = ""
    /\ \E df \in KitchenFrames, orders \in OrderLists :
        \E raws \in [1..Len(orders) -> KitchenRawPreds] :
            LET loop == BatchLoop(orders, df, raws, 1, <<>>)
                empty == loop.outcome = "returned" /\ loop.predictions = <<>>
                done == loop.outcome = "returned" /\ ~empty
            IN kb' = [op |-> "predict_batch_prep_time", n |-> Len(orders), orders |-> orders,
                      raws |-> raws,
                      outcome |-> IF done THEN "returned" ELSE "raised",
                      exc |-> IF empty THEN "ValueError" ELSE loop.exc,
                      item_predictions |-> loop.predictions,
                      batch_size |-> IF done THEN Len(orders) ELSE 0,
                      estimated_total_time_minutes |->
                          IF done
                          THEN MaxOf([i \in 1..Len(loop.predictions) |->
                                         loop.predictions[i].predicted_prep_time_minutes])
                          ELSE 0]
    /\ UNCHANGED <<coreVars, otherThanKb>>

NextKitchenService == PredictPrepTime \/ PredictBatchPrepTime

SpecKitchenService == Init /\ [][NextKitchenService]_vars

\* ------------------------------------------------ non-negative predictions
\* hours of a day the daily forecast sums, and hours_ahead of the hourly one
MaxHours == 2

\* 1.96 * std_pred of predict_with_confidence, at most
MaxMargin == 2

\* int(x) of a number held in tenths: truncation towards zero
IntOfTenths(v) == IF v >= 0 THEN v \div Tenths ELSE 0 - ((0 - v) \div Tenths)

\* the raw answers of an estimator for the rows of a frame
RawColumns == UNION {[1..n -> KitchenRawPreds] : n \in 1..MaxRows}

\* CustomerLTVModel.predict: np.maximum(predictions, 0), row by row
LtvModelPredict(raws) == [i \in 1..Len(raws) |-> Maximum(raws[i], 0)]

\* 'lower_bound': np.maximum(predictions - 1.96 * std_pred, 0)
LowerBounds(predictions, margin) ==
    [i \in 1..Len(predictions) |-> Maximum(predictions[i] - margin, 0)]

\* 'upper_bound': predictions + 1.96 * std_pred
UpperBounds(predictions, margin) == [i \in 1..Len(predictions) |-> predictions[i] + margin]

\* KitchenPerformanceModel.predict / predict_with_confidence on a frame; the
\* deviation of equal predictions is 0
KitchenModelCall ==
    /\ nn.op = ""
    /\ \E raws \in RawColumns, margin \in 0..MaxMargin, op \in {"predict", "predict_with_confidence"} :
        LET predictions == [i \in 1..Len(raws) |-> KitchenModelPredict(raws[i])[1]] IN
        /\ (\A i \in 1..Len(raws) : predictions[i] = predictions[1]) => margin = 0
        /\ nn' = [op |-> op, of |-> "KitchenPerformanceModel", outcome |-> "returned",
                  raws |-> raws,
                  values |-> IF op = "predict" THEN predictions
                             ELSE predictions \o LowerBounds(predictions, margin),
                  upper |-> IF op = "predict" THEN <<>> ELSE UpperBounds(predictions, margin)]
    /\ UNCHANGED <<coreVars, otherThanNn>>

\* CustomerLTVModel.predict on a frame
LtvModelCall ==
    /\ nn.op = ""
    /\ \E raws \in RawColumns :
        nn' = [op |-> "predict", of |-> "CustomerLTVModel", outcome |-> "returned",
               raws |-> raws, values |-> LtvModelPredict(raws), upper |-> <<>>]
    /\ UNCHANGED <<coreVars, otherThanNn>>

\* CustomerPredictionService.predict_ltv: 'predicted_ltv': round(ltv_pred, 2)
\* of the first element of self.ltv_model.predict(X)
PredictLtv ==
    /\ nn.op = ""
    /\ \E raw \in KitchenRawPreds :
        nn' = [op |-> "predict_ltv", of |-> "CustomerPredictionService",
               outcome |-> "returned", raws |-> <<raw>>,
               values |-> <<LtvModelPredict(<<raw>>)[1]>>, upper |-> <<>>]
    /\ UNCHANGED <<coreVars, otherThanNn>>

\* the answers of the demand model's two components for each hour asked
HourlyRaws == UNION {[1..n -> RawPreds \X RawPreds] : n \in 1..MaxHours}

\* self.model.predict(X, pd.Series([target_time]))[0], in tenths of an order
DemandModelPredict(raw) == Maximum(EnsemblePred(dm.prophet, raw[1], raw[2]), 0)

\* DemandForecastModel.predict on one row of a frame
DemandModelCall ==
    /\ nn.op = ""
    /\ \E raw \in RawPreds \X RawPreds :
        nn' = IF ~dm.is_trained
              THEN [op |-> "predict", of |-> "DemandForecastModel", outcome |-> "raised",
                    raws |-> <<raw>>, values |-> <<>>, upper |-> <<>>]
              ELSE [op |-> "predict", of |-> "DemandForecastModel", outcome |-> "returned",
                    raws |-> <<raw>>, values |-> <<DemandModelPredict(raw)>>, upper |-> <<>>]
    /\ UNCHANGED <<coreVars, otherThanNn>>

RECURSIVE SumTenths(_)
SumTenths(s) == IF s = <<>> THEN 0 ELSE Head(s) + SumTenths(Tail(s))

\* DemandPredictionService.predict_hourly: 'predicted_orders': max(int(pred), 0)
\* for each hour; an untrained model raises ValueError out of the service
PredictHourly ==
    /\ nn.op = ""
    /\ \E raws \in HourlyRaws :
        nn' = IF ~dm.is_trained
              THEN [op |-> "predict_hourly", of |-> "DemandPredictionService",
                    outcome |-> "raised", raws |-> raws, values |-> <<>>, upper |-> <<>>]
              ELSE [op |-> "predict_hourly", of |-> "DemandPredictionService",
                    outcome |-> "returned", raws |-> raws,
                    values |-> [i \in 1..Len(raws) |->
                                   Maximum(IntOfTenths(DemandModelPredict(raws[i])), 0)],
                    upper |-> <<>>]
    /\ UNCHANGED <<coreVars, otherThanNn>>

\* DemandPredictionService.predict_daily for one day: hourly_breakdown holds
\* max(int(pred), 0) per hour, daily_total sums pred, and 'predicted_orders'
\* is max(int(daily_total), 0); values lists predicted_orders, then the
\* breakdown
PredictDaily ==
    /\ nn.op = ""
    /\ \E raws \in HourlyRaws :
        LET preds == [i \in 1..Len(raws) |-> DemandModelPredict(raws[i])]
            daily_predictions == [i \in 1..Len(raws) |-> Maximum(IntOfTenths(preds[i]), 0)]
            daily_total == SumTenths(preds)
        IN nn' = IF ~dm.is_trained
                 THEN [op |-> "predict_daily", of |-> "DemandPredictionService",
                       outcome |-> "raised", raws |-> raws, values |-> <<>>, upper |-> <<>>]
                 ELSE [op |-> "predict_daily", of |-> "DemandPredictionService",
                       outcome |-> "returned", raws |-> raws,
                       values |-> <<Maximum(IntOfTenths(daily_total), 0)>> \o daily_predictions,
                       upper |-> <<>>]
    /\ UNCHANGED <<coreVars, otherThanNn>>

\* the models are trained, then a caller asks one of them, or a service
\* holding one of them, for a prediction
NextPredictions ==
    \/ (nn.op = "" /\ DemandTrain)
    \/ DemandModelCall \/ KitchenModelCall \/ LtvModelCall
    \/ PredictLtv \/ PredictHourly \/ PredictDaily

SpecPredictions == Init /\ [][NextPredictions]_vars

\* ------------------------------------------------ inventory recommendations
\* stock levels and thresholds
MaxLevel == 2

\* rows of the inventory frame of a batch
MaxItems == 2

Levels == 0..MaxLevel

\* max_level: None is <<>>, a number m is <<m>>
MaxLevels == {<<>>} \cup {<<m>> : m \in Levels}

\* `max_level and ...`: None and 0 are false
Truthy(max_level) == max_level # <<>> /\ max_level[1] # 0

\* InventoryOptimizationModel.get_recommendations: the three checks run one
\* after the other, each overwriting what an earlier one set;
\* recommended_order_qty is held in tenths
get_recommendations(current_stock, reorder_point, optimal_order_qty, min_level, max_level) ==
    LET r0 == [action |-> "hold", urgency |-> "low", reason |-> "healthy",
               recommended_order_qty |-> 0, order_quantity |-> <<>>]
        r1 == IF current_stock <= reorder_point
              THEN [r0 EXCEPT !.action = "reorder", !.order_quantity = <<optimal_order_qty>>,
                              !.urgency = "high", !.reason = "below reorder point"]
              ELSE r0
        r2 == IF current_stock <= min_level
              THEN [r1 EXCEPT !.action = "emergency_reorder", !.urgency = "critical",
                              !.reason = "below minimum level",
                              !.recommended_order_qty = optimal_order_qty * 15]
              ELSE r1
    IN IF Truthy(max_level) /\ current_stock >= max_level[1]
       THEN [r2 EXCEPT !.action = "reduce_orders", !.urgency = "medium",
                       !.reason = "above maximum level", !.recommended_order_qty = 0]
       ELSE r2

\* InventoryPredictionService.get_item_recommendation
get_item_recommendation(item_id, current_stock, reorder_point, order_qty, min_level, max_level) ==
    LET recommendation == get_recommendations(current_stock, reorder_point, order_qty,
                                              min_level, max_level)
    IN [item_id |-> item_id, current_stock |-> current_stock,
        action |-> recommendation.action, urgency |-> recommendation.urgency,
        reason |-> recommendation.reason,
        recommended_order_qty |-> recommendation.recommended_order_qty]

\* urgency_order.get(x['urgency'], 4)
UrgencyKey(urgency) ==
    CASE urgency = "critical" -> 0
      [] urgency = "high" -> 1
      [] urgency = "medium" -> 2
      [] urgency = "low" -> 3
      [] OTHER -> 4

RECURSIVE ConcatKeys(_, _)
\* the elements of recs by ascending key, equal keys in their order in recs
ConcatKeys(recs, k) ==
    IF k > 4 THEN <<>>
    ELSE SelectSeq(recs, LAMBDA r : UrgencyKey(r.urgency) = k) \o ConcatKeys(recs, k + 1)

\* variant: the list handed on in the order of the frame
UnsortedByUrgency(recs) == recs

\* recommendations.sort(key=...): a stable sort
SortByUrgency(recs) == ConcatKeys(recs, 0)

\* the rows of inventory_df; item_id is the position of the row
InventoryFrames ==
    UNION {[1..n -> [current_stock : Levels, reorder_level : Levels, min_level : Levels]] :
               n \in 0..MaxItems}

\* a caller of the model's get_recommendations
GetRecommendations ==
    /\ inv.op = ""
    /\ \E current_stock \in Levels, reorder_point \in Levels, min_level \in Levels,
          max_level \in MaxLevels :
        LET r == get_recommendations(current_stock, reorder_point, 2 * reorder_point,
                                     min_level, max_level) IN
        inv' = [op |-> "get_recommendations", current_stock |-> current_stock,
                reorder_point |-> reorder_point, min_level |-> min_level,
                max_level |-> max_level, action |-> r.action, urgency |-> r.urgency,
                recommended_order_qty |-> r.recommended_order_qty, rows |-> <<>>,
                recommendations |-> <<>>]
    /\ UNCHANGED <<coreVars, otherThanInv>>

\* InventoryPredictionService.get_batch_recommendations: one
\* get_item_recommendation per row, without max_level, then the sort
GetBatchRecommendations ==
    /\ inv.op = ""
    /\ \E inventory_df \in InventoryFrames :
        LET recs == [i \in 1..Len(inventory_df) |->
                        get_item_recommendation(i, inventory_df[i].current_stock,
                                                inventory_df[i].reorder_level,
                                                inventory_df[i].reorder_level * 2,
                                                inventory_df[i].min_level, <<>>)]
        IN inv' = [op |-> "get_batch_recommendations", current_stock |-> 0,
                   reorder_point |-> 0, min_level |-> 0, max_level |-> <<>>,
                   action |-> "", urgency |-> "", recommended_order_qty |-> 0,
                   rows |-> inventory_df, recommendations |-> SortByUrgency(recs)]
    /\ UNCHANGED <<coreVars, otherThanInv>>

\* r['action'] in ['reorder', 'emergency_reorder']
NeedsReorder(r) == r.action \in {"reorder", "emergency_reorder"}

\* sum(r['recommended_order_qty'] for r in reorder_items)
RECURSIVE SumQty(_)
SumQty(recs) == IF recs = <<>> THEN 0 ELSE Head(recs).recommended_order_qty + SumQty(Tail(recs))

\* InventoryPredictionService.get_reorder_summary: the batch recommendations
\* filtered for the two reorder actions, and the total of their quantities
\* (tenths, so round(.., 1) changes nothing)
GetReorderSummary ==
    /\ inv.op = ""
    /\ \E inventory_df \in InventoryFrames :
        LET recs == [i \in 1..Len(inventory_df) |->
                        get_item_recommendation(i, inventory_df[i].current_stock,
                                                inventory_df[i].reorder_level,
                                                inventory_df[i].reorder_level * 2,
                                                inventory_df[i].min_level, <<>>)]
            reorder_items == SelectSeq(SortByUrgency(recs), NeedsReorder)
        IN inv' = [op |-> "get_reorder_summary", current_stock |-> 0,
                   reorder_point |-> 0, min_level |-> 0, max_level |-> <<>>,
                   action |-> "", urgency |-> "", recommended_order_qty |-> 0,
                   rows |-> inventory_df, recommendations |-> SortByUrgency(recs),
                   items |-> reorder_items,
                   items_needing_reorder |-> Len(reorder_items),
                   total_reorder_quantity |-> SumQty(reorder_items)]
    /\ UNCHANGED <<coreVars, otherThanInv>>

NextInventory == GetRecommendations \/ GetBatchRecommendations \/ GetReorderSummary

SpecInventory == Init /\ [][NextInventory]_vars

\* ------------------------------------------------------------ LTV segments
\* rows of a frame handed to get_ltv_segments, and scorings in a behaviour
MaxBatch == 3
MaxScorings == 2

\* what the LTV estimator answers for one row, before the clamp
LtvRaws == {0 - 1, 1, 2}
LtvBatches == UNION {[1..n -> LtvRaws] : n \in 1..MaxBatch}

\* churn probabilities predict_churn reports, in hundredths
ChurnProbabilities == {30, 50, 70}

\* np.percentile(a, q), linear interpolation, times 100: the rank
\* q / 100 * (n - 1) lies between two neighbours of the sorted values
Percentile100(a, q) ==
    LET n == Len(a)
        lo == (q * (n - 1)) \div 100
        rem == (q * (n - 1)) % 100
        x_lo == KthSmallest(a, lo + 1)
        x_hi == KthSmallest(a, IF lo + 2 <= n THEN lo + 2 ELSE n)
    IN 100 * x_lo + rem * (x_hi - x_lo)

\* variant: thresholds fixed in advance instead of the batch's percentiles
LtvSegmentsFixed(raws) ==
    [i \in 1..Len(raws) |->
        IF Maximum(raws[i], 0) < 1 THEN "low_value"
        ELSE IF Maximum(raws[i], 0) < 2 THEN "medium_value" ELSE "high_value"]

\* variant: a value equal to a percentile falls in the segment below it
LtvSegmentsInclusive(raws) ==
    LET ltv == LtvModelPredict(raws) IN
    [i \in 1..Len(ltv) |->
        IF 100 * ltv[i] <= Percentile100(ltv, 33) THEN "low_value"
        ELSE IF 100 * ltv[i] <= Percentile100(ltv, 67) THEN "medium_value"
        ELSE "high_value"]

\* CustomerLTVModel.get_ltv_segments on the frame whose rows the estimator
\* answers with raws
get_ltv_segments(raws) ==
    LET ltv == LtvModelPredict(raws)
        p33 == Percentile100(ltv, 33)
        p67 == Percentile100(ltv, 67)
    IN [i \in 1..Len(ltv) |->
           IF 100 * ltv[i] < p33 THEN "low_value"
           ELSE IF 100 * ltv[i] < p67 THEN "medium_value"
           ELSE "high_value"]

\* CustomerPredictionService._get_recommendations
CustomerRecommendations(churn_probability, ltv_segment) ==
    (IF churn_probability >= 70
     THEN <<"Send personalized retention offer", "Offer loyalty points bonus">>
     ELSE IF churn_probability >= 50 THEN <<"Send engagement email">> ELSE <<>>)
    \o (IF ltv_segment = "high_value"
        THEN <<"VIP treatment - priority service", "Exclusive menu items access">>
        ELSE IF ltv_segment = "medium_value" THEN <<"Encourage repeat visits">> ELSE <<>>)

\* a caller scores a frame with the model's get_ltv_segments
GetLtvSegments ==
    /\ Len(seg) < MaxScorings
    /\ \E raws \in LtvBatches :
        seg' = Append(seg, [op |-> "get_ltv_segments", raws |-> raws,
                            ltv |-> LtvModelPredict(raws),
                            segments |-> get_ltv_segments(raws),
                            churn_probability |-> 0, recommendations |-> <<>>])
    /\ UNCHANGED <<coreVars, otherThanSeg>>

\* CustomerPredictionService.predict_ltv: X = pd.DataFrame([features]), the
\* first element of predict(X) and of get_ltv_segments(X)
PredictLtvSegment ==
    /\ Len(seg) < MaxScorings
    /\ \E raw \in LtvRaws :
        seg' = Append(seg, [op |-> "predict_ltv", raws |-> <<raw>>,
                            ltv |-> <<LtvModelPredict(<<raw>>)[1]>>,
                            segments |-> <<get_ltv_segments(<<raw>>)[1]>>,
                            churn_probability |-> 0, recommendations |-> <<>>])
    /\ UNCHANGED <<coreVars, otherThanSeg>>

\* CustomerPredictionService.predict_customer_analytics: predict_churn,
\* predict_ltv, then _get_recommendations on the two results
PredictCustomerAnalytics ==
    /\ Len(seg) < MaxScorings
    /\ \E raw \in LtvRaws, churn_probability \in ChurnProbabilities :
        LET ltv_segment == get_ltv_segments(<<raw>>)[1] IN
        seg' = Append(seg, [op |-> "predict_customer_analytics", raws |-> <<raw>>,
                            ltv |-> <<LtvModelPredict(<<raw>>)[1]>>,
                            segments |-> <<ltv_segment>>,
                            churn_probability |-> churn_probability,
                            recommendations |->
                                CustomerRecommendations(churn_probability, ltv_segment)])
    /\ UNCHANGED <<coreVars, otherThanSeg>>

NextSegments == GetLtvSegments \/ PredictLtvSegment \/ PredictCustomerAnalytics

SpecSegments == Init /\ [][NextSegments]_vars

\* --------------------------------------------------- derived calendar fields
\* a timestamp, as far as the flags look at it: the day of the week counted
\* as datetime.weekday() does (Monday 0 .. Sunday 6) and the hour
Timestamps == [weekday : 0..6, hour : 0..23]

\* PostgreSQL EXTRACT(DOW FROM ts): Sunday 0 .. Saturday 6
ExtractDow(ts) == (ts.weekday + 1) % 7

\* EXTRACT(HOUR FROM ts)
ExtractHour(ts) == ts.hour

\* the columns extract_orders and extract_kitchen_performance compute in SQL
ExtractRecord(ts) == [day_of_week |-> ExtractDow(ts), hour_of_day |-> ExtractHour(ts)]

\* df['is_weekend'] = df['day_of_week'].isin([5, 6]).astype(int) and
\* df['is_peak_hour'] = df['hour_of_day'].isin([12, 13, 18, 19, 20]).astype(int)
DerivedFields(row) ==
    [is_weekend |-> IntOf(row.day_of_week \in {5, 6}),
     is_peak_hour |-> IntOf(row.hour_of_day \in {12, 13, 18, 19, 20})]

\* a record that passes the filters of process_orders / process_kitchen_data
\* goes from the database through the extractor and the processor
ProcessRecord ==
    /\ cal.op = ""
    /\ \E ts \in Timestamps, op \in {"process_orders", "process_kitchen_data"} :
        LET row == ExtractRecord(ts) IN
        cal' = [op |-> op, weekday |-> ts.weekday, hour |-> ts.hour,
                day_of_week |-> row.day_of_week, hour_of_day |-> row.hour_of_day,
                is_weekend |-> DerivedFields(row).is_weekend,
                is_peak_hour |-> DerivedFields(row).is_peak_hour]
    /\ UNCHANGED <<coreVars, otherThanCal>>

NextCalendar == ProcessRecord

SpecCalendar == Init /\ [][NextCalendar]_vars

\* ------------------------------------------------------------- the RFM score
\* round(x, 2) of a non-negative quotient, in hundredths (no quotient of the
\* three scores by 3 lies half way between two hundredths)
Hundredths == 100
RoundTo2(q) == (2 * Hundredths * q[1] + q[2]) \div (2 * q[2])

\* the arguments tried: each threshold, its neighbour on the worse side and
\* the two ends
RecencyValues == {0, 30, 31, 60, 61, 90, 91, 180, 181}
FrequencyValues == {0, 1, 2, 4, 5, 9, 10, 19, 20}
MonetaryValues == {0, 49, 50, 199, 200, 499, 500, 999, 1000}

\* FeatureEngineer._calculate_rfm_score as called by create_customer_features
RfmScoreCall ==
    /\ rfm.op = ""
    /\ \E recency \in RecencyValues, frequency \in FrequencyValues, monetary \in MonetaryValues :
        rfm' = [op |-> "_calculate_rfm_score", recency |-> recency, frequency |-> frequency,
                monetary |-> monetary,
                score |-> RoundTo2(CalculateRfmScore(recency, frequency, monetary))]
    /\ UNCHANGED <<coreVars, otherThanRfm>>

NextRfm == RfmScoreCall

SpecRfm == Init /\ [][NextRfm]_vars

\* ------------------------------------------------ economic order quantity
\* A non-negative real that is the square root of a quotient is held as the
\* quotient: Root(n, d) stands for sqrt(n / d), so 0 is Root(0, 1) and 1 is
\* Root(1, 1).
Root(n, d) == <<n, d>>

\* max(x, 1) of such a value
AtLeastOne(x) == IF x[1] >= x[2] THEN x ELSE Root(1, 1)

\* the largest r in lo..hi with r * r <= n
RECURSIVE ISqrtIn(_, _, _)
ISqrtIn(n, lo, hi) ==
    IF lo = hi THEN lo
    ELSE LET mid == (lo + hi + 1) \div 2
         IN IF mid * mid <= n THEN ISqrtIn(n, mid, hi) ELSE ISqrtIn(n, lo, mid - 1)

\* the integer square root of a 31-bit number (46340 squared is the largest
\* square below 2^31)
ISqrt(n) == ISqrtIn(n, 0, 46340)

\* round(x, digits) of sqrt(n / d), in units of 1 / scale: the nearest
\* integer to scale * sqrt(n / d)
RoundRoot(x, scale) ==
    LET whole == (scale * scale * x[1]) \div x[2]
        rest == (scale * scale * x[1]) % x[2]
        f == ISqrt(whole)
    IN IF whole < f * f + f \/ (whole = f * f + f /\ 4 * rest < x[2]) THEN f ELSE f + 1

\* predict_order_quantity without the max(.., 1) on what it returns
PredictOrderQuantityUnclamped(annual_demand, order_cost, holding_cost) ==
    IF annual_demand <= 0 \/ order_cost <= 0 \/ holding_cost <= 0
    THEN [optimal_order_quantity |-> Root(0, 1), orders_per_year |-> Root(0, 1),
          total_cost |-> Root(0, 1), average_inventory |-> Root(0, 1)]
    ELSE [optimal_order_quantity |-> Root(2 * annual_demand * order_cost, holding_cost),
          orders_per_year |-> Root(annual_demand * holding_cost, 2 * order_cost),
          average_inventory |-> Root(2 * annual_demand * order_cost, 4 * holding_cost),
          total_cost |-> Root(2 * annual_demand * order_cost * holding_cost, 1)]

\* InventoryOptimizationModel.predict_order_quantity.  With eoq =
\* sqrt(2DS/H): orders_per_year = D / eoq = sqrt(DH / 2S), average_inventory
\* = eoq / 2 = sqrt(2DS / 4H), and total_cost = orders_per_year * S +
\* average_inventory * H = 2 * sqrt(DSH / 2) = sqrt(2DSH), the two being
\* taken before the max(.., 1) of the returned dictionary.
predict_order_quantity(annual_demand, order_cost, holding_cost) ==
    IF annual_demand <= 0 \/ order_cost <= 0 \/ holding_cost <= 0
    THEN [optimal_order_quantity |-> Root(0, 1), orders_per_year |-> Root(0, 1),
          total_cost |-> Root(0, 1), average_inventory |-> Root(0, 1)]
    ELSE LET eoq_ == Root(2 * annual_demand * order_cost, holding_cost)
             orders_per_year == Root(annual_demand * holding_cost, 2 * order_cost)
         IN [optimal_order_quantity |-> AtLeastOne(eoq_),
             orders_per_year |-> AtLeastOne(orders_per_year),
             average_inventory |-> Root(eoq_[1], 4 * eoq_[2]),
             total_cost |-> Root(2 * annual_demand * order_cost * holding_cost, 1)]

AnnualDemands == {0 - 1, 0, 1, 2, 8, 1000}
OrderCosts == {0 - 1, 0, 1, 2, 50}
HoldingCosts == {0 - 1, 0, 1, 2}

\* the model's method called directly
ModelPredictOrderQuantity ==
    /\ eoq.op = ""
    /\ \E annual_demand \in AnnualDemands, order_cost \in OrderCosts, holding_cost \in HoldingCosts :
        eoq' = [op |-> "model", annual_demand |-> annual_demand, order_cost |-> order_cost,
                holding_cost |-> holding_cost,
                result |-> predict_order_quantity(annual_demand, order_cost, holding_cost)]
    /\ UNCHANGED <<coreVars, otherThanEoq>>

\* InventoryPredictionService.predict_order_quantity: the model's result,
\* quantities rounded to 1 decimal (held in tenths)
ServicePredictOrderQuantity ==
    /\ eoq.op = ""
    /\ \E annual_demand \in AnnualDemands, order_cost \in OrderCosts, holding_cost \in HoldingCosts :
        LET res == predict_order_quantity(annual_demand, order_cost, holding_cost) IN
        eoq' = [op |-> "service", annual_demand |-> annual_demand, order_cost |-> order_cost,
                holding_cost |-> holding_cost, result |-> res,
                optimal_order_quantity |-> RoundRoot(res.optimal_order_quantity, Tenths),
                orders_per_year |-> RoundRoot(res.orders_per_year, Tenths),
                average_inventory |-> RoundRoot(res.average_inventory, Tenths),
                total_cost |-> RoundRoot(res.total_cost, Tenths * Tenths)]
    /\ UNCHANGED <<coreVars, otherThanEoq>>

NextOrderQuantity == ModelPredictOrderQuantity \/ ServicePredictOrderQuantity

SpecOrderQuantity == Init /\ [][NextOrderQuantity]_vars

\* ----------------------------------------------------------- reorder point
\* Probabilities and z-scores are held in thousandths.  A float is <<v>> for
\* the finite value v, Infinity (a pair), or NaN (the empty tuple).
Thousandths == 1000
Infinity == <<1, 0>>
Finite(v) == <<v>>
IsFinite(x) == x # NaN /\ x # Infinity

\* the standard-normal quantiles of the probabilities used here
QuantileTable == (5 :> 0 - 2576) @@ (10 :> 0 - 2326) @@ (500 :> 0) @@ (950 :> 1645) @@ (990 :> 2326)

\* scipy.stats.norm.ppf(q): nan outside [0, 1], infinite at the two ends
NormPpf(q) ==
    IF q < 0 \/ q > Thousandths THEN NaN
    ELSE IF q = Thousandths THEN Infinity
    ELSE Finite(QuantileTable[q])

\* InventoryOptimizationModel._get_z_score: percentile = service_level * 100,
\* z_score = norm.ppf(percentile)
_get_z_score(service_level) == NormPpf(service_level * 100)

\* x * k for a float x and a finite k >= 0
Times(x, k) ==
    IF x = NaN THEN NaN
    ELSE IF x = Infinity THEN (IF k = 0 THEN NaN ELSE Infinity)
    ELSE Finite(x[1] * k)

\* k + x for a finite k and a float x
Plus(k, x) == IF IsFinite(x) THEN Finite(k + x[1]) ELSE x

\* Python max(x, 0): 0 only when 0 > x, which is False for nan
MaxWithZero(x) == IF IsFinite(x) /\ 0 > x[1] THEN Finite(0) ELSE x

\* InventoryOptimizationModel.predict_reorder_point on a trained model;
\* lead times are perfect squares, so np.sqrt(lead_time_days) is ISqrt
predict_reorder_point(z_score, daily_consumption_rate, lead_time_days, consumption_std_dev) ==
    LET avg_demand_during_lead_time == daily_consumption_rate * lead_time_days
        safety_stock == Times(z_score, consumption_std_dev * ISqrt(lead_time_days))
        reorder_point == Plus(Thousandths * avg_demand_during_lead_time, safety_stock)
    IN [reorder_point |-> MaxWithZero(reorder_point),
        safety_stock |-> MaxWithZero(safety_stock),
        avg_demand_during_lead_time |-> avg_demand_during_lead_time]

ServiceLevels == {5, 10, 500, 950, 990}
ConsumptionRates == {0, 2, 10}
LeadTimes == {0, 1, 4, 9}
StdDevs == {0, 1, 3}

\* InventoryOptimizationModel.__init__
ConstructInventoryModel ==
    /\ ~rop.built
    /\ \E service_level \in ServiceLevels :
        rop' = [built |-> TRUE, service_level |-> service_level,
                z_score |-> _get_z_score(service_level), is_trained |-> FALSE, op |-> ""]
    /\ UNCHANGED <<coreVars, otherThanRop>>

\* InventoryOptimizationModel.train on 30 days of history or more
TrainInventoryModel ==
    /\ rop.built /\ ~rop.is_trained /\ rop.op = ""
    /\ rop' = [rop EXCEPT !.is_trained = TRUE]
    /\ UNCHANGED <<coreVars, otherThanRop>>

\* predict_reorder_point: ValueError before training
PredictReorderPoint ==
    /\ rop.built /\ rop.op = ""
    /\ \E daily_consumption_rate \in ConsumptionRates, lead_time_days \in LeadTimes,
          consumption_std_dev \in StdDevs :
        IF ~rop.is_trained
        THEN rop' = [built |-> TRUE, service_level |-> rop.service_level, z_score |-> rop.z_score,
                     is_trained |-> FALSE, op |-> "predict_reorder_point",
                     outcome |-> "raised", exc |-> "ValueError"]
        ELSE LET res == predict_reorder_point(rop.z_score, daily_consumption_rate,
                                              lead_time_days, consumption_std_dev) IN
             rop' = [built |-> TRUE, service_level |-> rop.service_level, z_score |-> rop.z_score,
                     is_trained |-> TRUE, op |-> "predict_reorder_point",
                     outcome |-> "returned", exc |-> "",
                     daily_consumption_rate |-> daily_consumption_rate,
                     lead_time_days |-> lead_time_days,
                     consumption_std_dev |-> consumption_std_dev,
                     reorder_point |-> res.reorder_point,
                     safety_stock |-> res.safety_stock,
                     avg_demand_during_lead_time |-> res.avg_demand_during_lead_time]
    /\ UNCHANGED <<coreVars, otherThanRop>>

NextReorderPoint == ConstructInventoryModel \/ TrainInventoryModel \/ PredictReorderPoint

SpecReorderPoint == Init /\ [][NextReorderPoint]_vars

\* -------------------------------------------------------- train/test split
MaxSamples == 10

\* test_size, in tenths
TestSizes == {1, 2, 3, 5, 8, 9}

\* 1 - test_size in double precision is the nearest double to the exact
\* difference for the fractions above except 0.8 and 0.9, where it is the
\* next double below (0.19999999999999996 and 0.09999999999999998)
BelowExact(test_size) == test_size \in {8, 9}

\* the floor of n * (1 - test_size) in exact arithmetic
SplitIdxExact(n, test_size) == (n * (Tenths - test_size)) \div Tenths

\* int(len(X) * (1 - test_size)): the double product truncated.  Where
\* 1 - test_size is below the exact value and the exact product is a whole
\* number, the double product is just below it.
SplitIdx(n, test_size) ==
    IF BelowExact(test_size) /\ (n * (Tenths - test_size)) % Tenths = 0
    THEN SplitIdxExact(n, test_size) - 1
    ELSE SplitIdxExact(n, test_size)

\* X[:split_idx] and X[split_idx:], Python positions being one less
TrainPart(X, split_idx) == SubSeq(X, 1, split_idx)
TestPart(X, split_idx) == SubSeq(X, split_idx + 1, Len(X))

\* the samples of a run in the order the featurize loop appended them, each
\* with its position; for demand, dates is pd.date_range(..., freq='H')
Samples(n) == [i \in 1..n |-> i]
HourlyDates(n, start) == [i \in 1..n |-> start + (i - 1)]

SplitOf(task, n, test_size, start) ==
    LET split_idx == SplitIdx(n, test_size)
        X == Samples(n)
        dates == IF task = "demand" THEN HourlyDates(n, start) ELSE <<>>
    IN [op |-> task, n |-> n, test_size |-> test_size, split_idx |-> split_idx,
        X_train |-> TrainPart(X, split_idx), X_test |-> TestPart(X, split_idx),
        dates_train |-> IF task = "demand" THEN TrainPart(dates, split_idx) ELSE <<>>,
        dates_test |-> IF task = "demand" THEN TestPart(dates, split_idx) ELSE <<>>]

\* the split step of train_demand_model
SplitDemand ==
    /\ split.op = ""
    /\ \E n \in 1..MaxSamples, test_size \in TestSizes, start \in {0, 5} :
        split' = SplitOf("demand", n, test_size, start)
    /\ UNCHANGED <<coreVars, otherThanSplit>>

\* the split step of train_kitchen_model
SplitKitchen ==
    /\ split.op = ""
    /\ \E n \in 1..MaxSamples, test_size \in TestSizes : split' = SplitOf("kitchen", n, test_size, 0)
    /\ UNCHANGED <<coreVars, otherThanSplit>>

\* the split step of train_churn_model
SplitChurn ==
    /\ split.op = ""
    /\ \E n \in 1..MaxSamples, test_size \in TestSizes : split' = SplitOf("churn", n, test_size, 0)
    /\ UNCHANGED <<coreVars, otherThanSplit>>

\* the split step of train_ltv_model
SplitLtv ==
    /\ split.op = ""
    /\ \E n \in 1..MaxSamples, test_size \in TestSizes : split' = SplitOf("ltv", n, test_size, 0)
    /\ UNCHANGED <<coreVars, otherThanSplit>>

NextSplit == SplitDemand \/ SplitKitchen \/ SplitChurn \/ SplitLtv

SpecSplit == Init /\ [][NextSplit]_vars

\* =================================================================== claims
\* helpers for the properties
LastSaved(t) == saved[t][Len(saved[t])]

VersionsOf(h) == {h[i].version : i \in 1..Len(h)}

\* the number of _save_model calls of t that made (or re-entered) directory v
Uses(t, v) == Cardinality({i \in 1..Len(started[t]) : started[t][i].version = v})

\* the wall-clock second at which directory v of t was made
SaveTime(t, v) ==
    LET i == CHOOSE k \in 1..Len(started[t]) : started[t][k].version = v
    IN started[t][i].time

IsPrefix(a, b) == Len(a) <= Len(b) /\ \A i \in 1..Len(a) : a[i] = b[i]

Saving(t) == sv.pc # "idle" /\ sv.model_type = t

\* what _save_model has written when it reaches os.symlink
Written(t) ==
    /\ dirs[t][sv.version].model = [st |-> "complete", data |-> sv.model]
    /\ dirs[t][sv.version].metadata.st = "complete"
    /\ dirs[t][sv.version].metadata.data.version = sv.version
    /\ dirs[t][sv.version].metadata.data.metrics = sv.metrics

\* C1 as claimed: whenever `latest` exists and is followed, the version
\* directory it resolves to holds the completely written model.joblib and
\* metadata.json, in every interleaving; and _save_model repoints `latest`
\* only after it wrote both files of the new version.
C1_Original ==
    \A t \in ModelTypes :
        /\ LatestExists(t) => Complete(LatestDir(t))
        /\ (Saving(t) /\ sv.pc = "symlink") => Written(t)

\* C1 amended: the same, for a version directory whose identifier only one
\* _save_model call of the pair obtained.  A second call in the same
\* wall-clock second re-enters the directory `latest` references and rewrites
\* its files in place.
C1_Amended ==
    \A t \in ModelTypes :
        /\ (LatestExists(t) /\ Uses(t, ResolveLatest(t)[1].version) = 1)
              => Complete(LatestDir(t))
        /\ (Saving(t) /\ sv.pc = "symlink") => Written(t)

\* a reader can follow `latest` to the previous version while the next
\* version of the same pair is half written
C1_Witness ==
    \E t \in ModelTypes :
        /\ LatestExists(t)
        /\ Saving(t) /\ sv.pc = "dumping"
        /\ sv.version # ResolveLatest(t)[1].version
        /\ ~Complete(dirs[t][sv.version])

\* C2 as claimed, for an absolute model_dir: once a save of the pair has
\* completed, get_latest_model_path returns a path at every later moment,
\* also while a later _save_model of the pair runs or after it failed.
C2_Claim ==
    \A t \in ModelTypes :
        (IsAbs(model_dir) /\ saved[t] # <<>>) => get_latest_model_path(t) # <<>>

\* C3 as claimed: after a _save_model call of the pair has returned (and no
\* later one is running), `latest` resolves to the directory that call
\* created, holding its model and its metadata, whatever the model_dir.
C3_Claim ==
    \A t \in ModelTypes :
        (saved[t] # <<>> /\ ~Saving(t)) =>
            /\ LatestExists(t)
            /\ ResolveLatest(t)[1].version = LastSaved(t).version
            /\ LatestDir(t).model = [st |-> "complete", data |-> LastSaved(t).model]
            /\ LatestDir(t).metadata.st = "complete"
            /\ LatestDir(t).metadata.data.metrics = LastSaved(t).metrics

\* C4 as claimed: every identifier list_model_versions returns, at any
\* moment, names a version directory holding both files completely written.
C4_Claim ==
    \A t \in ModelTypes :
        \A i \in 1..Len(list_model_versions(t)) :
            Complete(dirs[t][list_model_versions(t)[i]])

\* C5 as claimed: when train_all_models ends, each of the five tasks was
\* attempted and each one's result was recorded in the results.
C5_Claim ==
    all.pc \in {"raised", "returned"} =>
        /\ all.attempted = ModelTypes
        /\ all.recorded = ModelTypes

\* the statements of train_<task> that come before the _save_model call
PrePersist == {"extract", "validate", "process", "featurize", "split", "train", "evaluate"}

\* C6: no train_<task> call lets an exception out (a call never ends with
\* status 'exception'); a statement before the save leaves the version
\* directories and `latest` as they were, and when it ends the call it ends
\* it with status 'error'.
C6_Theorem ==
    /\ [](result.status # "exception")
    /\ [][run.pc \in PrePersist =>
            /\ dirs' = dirs /\ latest' = latest
            /\ (run'.pc = "idle" => result'.status = "error" /\ result'.error # "")]_vars

\* a call failed before its save while `latest` referenced a previous version
C6_Witness ==
    /\ result.status = "error"
    /\ \A i \in 1..Len(result.trace) : result.trace[i] # "persist"
    /\ saved[result.task] # <<>>
    /\ LatestExists(result.task)
    /\ Complete(LatestDir(result.task))

ClaimedOrder == <<"extract", "validate", "process", "featurize", "split",
                  "train", "evaluate", "persist">>

InventoryOrder == <<"extract", "validate", "process", "train", "persist">>

C8_Claim ==
    /\ (call.op \notin {"", "train"} /\ ~call.was_trained) => call.outcome = "error"
    /\ (call.op = "train" /\ call.outcome = "error" /\ ~call.was_trained)
          => ~mdl[call.variant].is_trained

\* C9 as claimed (its second clause): each completed save of a pair created a
\* version directory whose identifier is distinct from and greater than that
\* of every earlier completed save of the pair.
C9_Original ==
    \A t \in ModelTypes :
        \A i, j \in 1..Len(saved[t]) :
            i < j => StrLess(saved[t][i].version, saved[t][j].version)

\* C9 amended: no step deletes a version directory; a step changes only the
\* directory of the version being saved and leaves the versions and `latest`
\* of every other pair alone; a save that starts in a later wall-clock second
\* than an earlier save of the pair gets a greater identifier (one that starts
\* in the same second re-enters the same directory); list_model_versions
\* returns one identifier per distinct identifier for which a save of the
\* pair made its directory, whether or not that save completed.
C9_Amended ==
    /\ [](\A t \in ModelTypes :
            /\ Len(list_model_versions(t)) = Cardinality(VersionsOf(started[t]))
            /\ VersionsOf(saved[t]) \subseteq DOMAIN dirs[t]
            /\ \A i, j \in 1..Len(started[t]) :
                  /\ started[t][i].time < started[t][j].time
                        => StrLess(started[t][i].version, started[t][j].version)
                  /\ started[t][i].time = started[t][j].time
                        => started[t][i].version = started[t][j].version)
    /\ [][\A t \in ModelTypes :
            /\ DOMAIN dirs[t] \subseteq DOMAIN dirs'[t]
            /\ \A v \in DOMAIN dirs[t] :
                  \/ dirs'[t][v] = dirs[t][v]
                  \/ Saving(t) /\ sv.version = v
                  \/ sv'.pc # "idle" /\ sv'.model_type = t /\ sv'.version = v
            /\ (~Saving(t) /\ ~(sv'.pc # "idle" /\ sv'.model_type = t))
                  => dirs'[t] = dirs[t] /\ latest'[t] = latest[t]]_vars

\* two saves of one pair completed in different seconds: two directories
C9_Witness ==
    \E t \in ModelTypes :
        /\ Len(saved[t]) = 2
        /\ saved[t][1].version # saved[t][2].version
        /\ Len(list_model_versions(t)) = 2
        /\ Complete(dirs[t][saved[t][1].version])

C11_Claim ==
    all.pc \in {"raised", "returned"} =>
        /\ all.ret = "results"
        /\ all.recorded = ModelTypes

\* C12 as claimed: every DataValidator.validate_* call, on any DataFrame,
\* returns {valid, issues, record_count} with valid = (issues is empty) and
\* record_count = the number of rows, never raises, and reports a missing
\* required column as an issue.
C12_Claim ==
    validation.op # "" =>
        /\ validation.outcome = "returned"
        /\ validation.valid = (validation.issues = <<>>)
        /\ validation.record_count = validation.df.n
        /\ validation.missing # {}
              => \E i \in 1..Len(validation.issues) : validation.issues[i] = "Missing columns"

\* C13: a constructor whose joblib.load finds no loadable model.joblib raises
\* and leaves no object to call; a constructed service has loaded each of its
\* models exactly once, keeps them for as long as it lives, and every call
\* on it works with the models loaded at construction, whatever the registry
\* holds by then.
C13_Theorem ==
    /\ [](/\ svc.pc = "ready" =>
                /\ Len(svc.models) = Len(ModelsOf(svc.kind))
                /\ svc.loads = Len(ModelsOf(svc.kind))
          /\ svc.pc = "raised" => svc.models = <<>> /\ svc.calls = 0
          /\ svc.calls > 0 => svc.pc = "ready" /\ svc.used = svc.models)
    /\ [][/\ (svc.pc = "loading" /\ svc' # svc
                /\ JoblibLoad(ModelsOf(svc.kind)[Len(svc.models) + 1]) = <<>>)
               => svc'.pc = "raised"
          /\ (svc.pc = "ready" /\ svc'.built = svc.built)
               => svc'.pc = "ready" /\ svc'.models = svc.models /\ svc'.loads = svc.loads]_vars

\* a service was called after a later save had repointed `latest` to another model
C13_Witness ==
    /\ svc.pc = "ready"
    /\ svc.calls > 0
    /\ JoblibLoad(ModelsOf(svc.kind)[1]) # <<>>
    /\ JoblibLoad(ModelsOf(svc.kind)[1])[1] # svc.models[1]

\* C14: a train call whose Prophet fit raises still returns its summary with
\* the model marked trained and the fallback logged as a warning; from then
\* on the object has no Prophet component, and every predict returns the
\* XGBoost prediction alone, clamped at 0, not the 70/30 blend.
C14_Theorem ==
    /\ []((dm.last.op = "train" /\ dm.last.outcome = "returned" /\ dm.last.prophet_raised)
            => dm.is_trained /\ dm.prophet = "none" /\ dm.last.warned /\ dm.warnings > 0)
    /\ []((dm.last.op = "predict" /\ dm.prophet = "none" /\ dm.is_trained)
            => /\ dm.last.outcome = "returned"
               /\ dm.last.value = Maximum(Tenths * dm.last.xgb_pred, 0))
    /\ [][/\ dm.prophet = "none" => dm'.prophet = "none"
          /\ dm'.warnings > dm.warnings
               <=> (dm'.last.op = "train" /\ dm'.trains > dm.trains
                    /\ dm'.last.outcome = "returned" /\ dm'.last.prophet_raised)]_vars

\* after a fallback, a predict whose blend would have differed returned the
\* XGBoost prediction
C14_Witness ==
    /\ dm.last.op = "predict"
    /\ dm.prophet = "none"
    /\ dm.warnings > 0
    /\ dm.last.xgb_pred = 2
    /\ dm.last.prophet_pred = -2
    /\ dm.last.value = 20

\* the keys each create_<task>_features function assigns
KitchenKeys ==
    {"avg_prep_time", "std_prep_time", "min_prep_time", "max_prep_time",
     "median_prep_time", "item_complexity"}
DemandKeys ==
    {"hour", "day_of_week", "day_of_month", "month", "is_weekend", "is_peak_hour",
     "hour_sin", "hour_cos", "day_sin", "day_cos", "orders_1d_ago", "orders_7d_ago",
     "orders_30d_ago", "orders_7d_avg", "orders_30d_avg", "days_since_start"}
CustomerKeys ==
    {"recency_days", "frequency", "monetary", "current_points", "lifetime_points",
     "current_tier", "avg_order_value", "days_since_signup", "order_frequency",
     "unique_order_days", "rfm_score"}
InventoryKeys ==
    {"current_stock", "min_level", "reorder_level", "daily_consumption_rate",
     "consumption_last_30_days", "avg_unit_cost", "stock_status", "days_until_stockout",
     "batch_count", "stock_to_reorder_ratio", "days_until_reorder"}
KeysOf(fn) ==
    CASE fn = "create_kitchen_features" -> KitchenKeys
      [] fn = "create_demand_features" -> DemandKeys
      [] fn = "create_customer_features" -> CustomerKeys
      [] fn = "create_inventory_features" -> InventoryKeys

\* C15: the keys a create_<task>_features call returns do not depend on the
\* data (six for kitchen in every tier, sixteen for demand, one fixed set for
\* customer and inventory rows), the feature_names a training run records are
\* that set, and so the keys a service builds at serving time are the
\* feature_names of the model it loaded.
C15_Theorem ==
    /\ Cardinality(KitchenKeys) = 6 /\ Cardinality(DemandKeys) = 16
    /\ \A t \in DOMAIN fe.names :
           fe.names[t] # <<>> =>
               fe.names[t][1] = KeysOf(IF t = "kitchen" THEN "create_kitchen_features"
                                       ELSE IF t = "demand" THEN "create_demand_features"
                                       ELSE "create_customer_features")
    /\ (fe.last.fn # "" /\ fe.last.outcome = "returned") =>
           /\ fe.last.keys = KeysOf(fe.last.fn)
           /\ fe.last.task \in DOMAIN fe.names => fe.names[fe.last.task] = <<fe.last.keys>>

\* a kitchen model trained on a history with rows serves a pair from an
\* empty history, the third tier
C15_Witness ==
    /\ fe.last.fn = "create_kitchen_features"
    /\ Len(fe.last.df) = 0
    /\ fe.names["kitchen"] = <<fe.last.keys>>

\* the statistics the three-tier chain is to return for a call
C16_Chain(df, station_id, menu_item_id) ==
    LET pair == SelectSeq(df, LAMBDA r : r.station_id = station_id /\ r.menu_item_id = menu_item_id)
        station == SelectSeq(df, LAMBDA r : r.station_id = station_id)
    IN IF Len(pair) >= 1 THEN PrepStats(pair)
       ELSE IF Len(station) >= 1 THEN PrepStats(station)
       ELSE [avg_prep_time |-> Float(10), std_prep_time |-> Float(2 * 2),
             min_prep_time |-> Float(5), max_prep_time |-> Float(20),
             median_prep_time |-> Float(10)]

C16_StatsFollowChain ==
    fe.last.fn = "create_kitchen_features" =>
        /\ fe.last.outcome = "returned"
        /\ \A k \in DOMAIN DefaultPrepStats :
               fe.last.features[k] =
                   C16_Chain(fe.last.df, fe.last.station_id, fe.last.menu_item_id)[k]

C17_Theorem ==
    /\ [](enc.last.op \notin {"", "train"} =>
            /\ enc.last.encoders_before = enc.label_encoders
            /\ (enc.is_trained /\ \E i \in 1..Len(enc.last.column) :
                                      enc.last.column[i] \notin enc.trained_on)
                   => (enc.last.outcome = "raised" /\ enc.last.X_encoded = <<>>))
    /\ [][enc'.trains = enc.trains => enc'.label_encoders = enc.label_encoders]_vars

\* a model trained on bronze and gold customers only is asked about several
\* customers, one of them silver
C17_Witness ==
    /\ enc.is_trained
    /\ enc.trained_on = {"bronze", "gold"}
    /\ enc.last.op \notin {"", "train"}
    /\ Len(enc.last.column) > 1
    /\ \E i \in 1..Len(enc.last.column) : enc.last.column[i] = "silver"
    /\ \E i \in 1..Len(enc.last.column) : enc.last.column[i] = "gold"
    /\ enc.last.outcome = "raised"

\* C18: for a non-empty list of orders predict_batch_prep_time returns, with
\* estimated_total_time_minutes the maximum of the items'
\* predicted_prep_time_minutes, batch_size the number of orders, and
\* item_predictions holding one prediction per order, in the order given.
C18_Claim ==
    (kb.op = "predict_batch_prep_time" /\ kb.n >= 1) =>
        /\ kb.outcome = "returned"
        /\ kb.batch_size = kb.n
        /\ Len(kb.item_predictions) = kb.n
        /\ \A i \in 1..kb.n :
               /\ kb.item_predictions[i].station_id = kb.orders[i].station_id
               /\ kb.item_predictions[i].menu_item_id = kb.orders[i].menu_item_id
               /\ kb.item_predictions[i].predicted_prep_time_minutes
                      <= kb.estimated_total_time_minutes
        /\ \E i \in 1..kb.n :
               kb.item_predictions[i].predicted_prep_time_minutes
                   = kb.estimated_total_time_minutes

\* C19: every value a trained DemandForecastModel, KitchenPerformanceModel or
\* CustomerLTVModel returns from predict is at least 0, and so are the values
\* built from them: predicted_orders and the hourly_breakdown entries of the
\* demand forecasts, the lower bound of a prep-time prediction, predicted_ltv.
C19_Theorem ==
    (nn.op # "" /\ nn.outcome = "returned") =>
        /\ nn.values # <<>>
        /\ \A i \in 1..Len(nn.values) : nn.values[i] >= 0

\* a daily forecast over hours for which the estimators answered below zero,
\* from a model trained without Prophet
C19_Witness ==
    /\ nn.op = "predict_daily"
    /\ nn.outcome = "returned"
    /\ dm.prophet = "none"
    /\ \E i \in 1..Len(nn.raws) : nn.raws[i][1] < 0
    /\ \E i \in 1..Len(nn.raws) : nn.raws[i][1] > 0
    /\ nn.values[1] > 0

\* the four (action, urgency) pairs
C20_Pairs ==
    {<<"hold", "low">>, <<"reorder", "high">>, <<"emergency_reorder", "critical">>,
     <<"reduce_orders", "medium">>}

\* a batch lists every row once, each with one of the pairs, by urgency
\* critical, high, medium, low
C20_BatchOrdered ==
    inv.op = "get_batch_recommendations" =>
        /\ Len(inv.recommendations) = Len(inv.rows)
        /\ {inv.recommendations[i].item_id : i \in 1..Len(inv.recommendations)}
               = 1..Len(inv.rows)
        /\ \A i \in 1..Len(inv.recommendations) :
               <<inv.recommendations[i].action, inv.recommendations[i].urgency>> \in C20_Pairs
        /\ \A i \in 1..Len(inv.recommendations), j \in 1..Len(inv.recommendations) :
               i < j => UrgencyKey(inv.recommendations[i].urgency)
                            <= UrgencyKey(inv.recommendations[j].urgency)

\* C20 as stated: get_recommendations returns one of the four pairs:
\* emergency_reorder when current_stock <= min_level, reorder when
\* min_level < current_stock <= reorder_point, reduce_orders when a max_level
\* is given and current_stock >= max_level, hold otherwise; a batch is listed
\* in urgency order.
C20_Original ==
    /\ C20_BatchOrdered
    /\ inv.op = "get_recommendations" =>
           LET emergency == inv.current_stock <= inv.min_level
               reorder == inv.min_level < inv.current_stock
                          /\ inv.current_stock <= inv.reorder_point
               reduce == inv.max_level # <<>> /\ inv.current_stock >= inv.max_level[1]
           IN /\ <<inv.action, inv.urgency>> \in C20_Pairs
              /\ emergency => inv.action = "emergency_reorder"
              /\ reorder => inv.action = "reorder"
              /\ reduce => inv.action = "reduce_orders"
              /\ ~(emergency \/ reorder \/ reduce) => inv.action = "hold"

\* C20 amended: get_recommendations returns one of the four pairs:
\* reduce_orders when a max_level other than 0 is given and current_stock >=
\* max_level, whatever the other thresholds; otherwise emergency_reorder when
\* current_stock <= min_level; otherwise reorder when current_stock <=
\* reorder_point; otherwise hold.  A batch is computed without max_level, so
\* it holds no reduce_orders, and it is listed in urgency order.
C20_Amended ==
    /\ C20_BatchOrdered
    /\ inv.op = "get_batch_recommendations" =>
           \A i \in 1..Len(inv.recommendations) :
               inv.recommendations[i].action # "reduce_orders"
    /\ inv.op = "get_recommendations" =>
           /\ <<inv.action, inv.urgency>> \in C20_Pairs
           /\ inv.action =
                  IF inv.max_level # <<>> /\ inv.max_level[1] # 0
                     /\ inv.current_stock >= inv.max_level[1]
                  THEN "reduce_orders"
                  ELSE IF inv.current_stock <= inv.min_level THEN "emergency_reorder"
                  ELSE IF inv.current_stock <= inv.reorder_point THEN "reorder"
                  ELSE "hold"

\* a batch whose second row is critical and whose first is not: the sort
\* moved it to the front
C20_Witness ==
    /\ inv.op = "get_batch_recommendations"
    /\ Len(inv.recommendations) > 1
    /\ inv.recommendations[1].item_id # 1
    /\ inv.recommendations[1].urgency = "critical"
    /\ inv.recommendations[Len(inv.recommendations)].urgency = "low"

\* C21: get_ltv_segments labels each prediction of a batch against that
\* batch's own 33rd and 67th percentiles: below p33 low_value, else below p67
\* medium_value, else high_value; the label of a value is a function of the
\* batch, not of the value alone.
C21_Theorem ==
    \A c \in 1..Len(seg) :
        seg[c].op = "get_ltv_segments" =>
            /\ Len(seg[c].segments) = Len(seg[c].raws)
            /\ \A i \in 1..Len(seg[c].ltv) :
                   /\ seg[c].segments[i] = "low_value"
                          <=> 100 * seg[c].ltv[i] < Percentile100(seg[c].ltv, 33)
                   /\ seg[c].segments[i] = "medium_value"
                          <=> /\ 100 * seg[c].ltv[i] >= Percentile100(seg[c].ltv, 33)
                              /\ 100 * seg[c].ltv[i] < Percentile100(seg[c].ltv, 67)
                   /\ seg[c].segments[i] = "high_value"
                          <=> 100 * seg[c].ltv[i] >= Percentile100(seg[c].ltv, 67)
            /\ \A i \in 1..Len(seg[c].ltv), j \in 1..Len(seg[c].ltv) :
                   seg[c].ltv[i] <= seg[c].ltv[j]
                       => seg[c].segments[i] # "high_value" \/ seg[c].segments[j] = "high_value"

\* the same predicted value is medium_value in one batch of three and
\* low_value in the next
C21_Witness ==
    /\ Len(seg) = 2
    /\ seg[1].op = "get_ltv_segments" /\ seg[2].op = "get_ltv_segments"
    /\ Len(seg[1].ltv) = 3 /\ Len(seg[2].ltv) = 3
    /\ \E i \in 1..3, j \in 1..3 :
           /\ seg[1].ltv[i] = seg[2].ltv[j]
           /\ seg[1].segments[i] = "medium_value"
           /\ seg[2].segments[j] = "low_value"

\* C28: a batch of exactly one row is labelled high_value whatever its
\* predicted value; so predict_ltv and predict_customer_analytics, which
\* score one customer at a time, report ltv_segment high_value for every
\* customer, and the recommendations drawn from the segment are the two
\* high-value ones for every customer.
C28_Theorem ==
    \A c \in 1..Len(seg) :
        /\ Len(seg[c].raws) = 1 => seg[c].segments = <<"high_value">>
        /\ seg[c].op \in {"predict_ltv", "predict_customer_analytics"}
               => Len(seg[c].raws) = 1 /\ seg[c].segments = <<"high_value">>
        /\ seg[c].op = "predict_customer_analytics" =>
               /\ Len(seg[c].recommendations) >= 2
               /\ SubSeq(seg[c].recommendations, Len(seg[c].recommendations) - 1,
                         Len(seg[c].recommendations))
                      = <<"VIP treatment - priority service", "Exclusive menu items access">>

\* two customers with different predicted values and the same low churn
\* probability get the same segment and the same recommendations
C28_Witness ==
    /\ Len(seg) = 2
    /\ seg[1].op = "predict_customer_analytics" /\ seg[2].op = "predict_customer_analytics"
    /\ seg[1].ltv[1] = 0 /\ seg[2].ltv[1] = 2
    /\ seg[1].churn_probability = 30 /\ seg[2].churn_probability = 30
    /\ seg[1].segments = seg[2].segments
    /\ seg[1].recommendations = seg[2].recommendations

\* C22: a processed record has is_weekend = 1 exactly when its timestamp is
\* a Saturday or a Sunday and is_peak_hour = 1 exactly when its hour is one
\* of 12, 13, 18, 19, 20, and both flags equal the ones create_demand_features
\* computes for the same timestamp.
C22_Claim ==
    cal.op # "" =>
        LET features == create_demand_features(
                            [n |-> 0, lag1 |-> 0, lag7 |-> 0, lag30 |-> 0, win7 |-> 0,
                             hours7 |-> 0, win30 |-> 0, hours30 |-> 0, age |-> 0],
                            [hour |-> cal.hour, weekday |-> cal.weekday, day |-> 1, month |-> 1])
        IN /\ cal.is_weekend = 1 <=> cal.weekday \in {5, 6}
           /\ cal.is_peak_hour = 1 <=> cal.hour \in {12, 13, 18, 19, 20}
           /\ cal.is_weekend = features["is_weekend"]
           /\ cal.is_peak_hour = features["is_peak_hour"]

\* the tiers the text gives: 5 down to 1, by four thresholds
C23_LowIsBetter(v, t) ==
    IF v <= t[1] THEN 5 ELSE IF v <= t[2] THEN 4 ELSE IF v <= t[3] THEN 3
    ELSE IF v <= t[4] THEN 2 ELSE 1

C23_HighIsBetter(v, t) ==
    IF v >= t[1] THEN 5 ELSE IF v >= t[2] THEN 4 ELSE IF v >= t[3] THEN 3
    ELSE IF v >= t[4] THEN 2 ELSE 1

\* C23: the RFM score is the unweighted mean of the recency, frequency and
\* monetary tiers (thresholds 30/60/90/180, 20/10/5/2 and 1000/500/200/50,
\* inclusive on the better tier) rounded to 2 decimals, and lies in [1, 5].
C23_Theorem ==
    rfm.op # "" =>
        LET total == C23_LowIsBetter(rfm.recency, <<30, 60, 90, 180>>)
                     + C23_HighIsBetter(rfm.frequency, <<20, 10, 5, 2>>)
                     + C23_HighIsBetter(rfm.monetary, <<1000, 500, 200, 50>>)
            diff == 3 * rfm.score - Hundredths * total
        IN /\ 2 * diff <= 3 /\ 0 - 3 <= 2 * diff
           /\ Hundredths <= rfm.score /\ rfm.score <= 5 * Hundredths
           /\ (rfm.recency = 30 /\ rfm.frequency = 20 /\ rfm.monetary = 1000
                 => rfm.score = 5 * Hundredths)
           /\ (rfm.recency = 31 /\ rfm.frequency = 19 /\ rfm.monetary = 999
                 => rfm.score = 4 * Hundredths)

\* recency 30 days (tier 5), 19 orders (tier 4), 1000 spent (tier 5): 4.67
C23_Witness ==
    /\ rfm.op = "_calculate_rfm_score"
    /\ rfm.recency = 30 /\ rfm.frequency = 19 /\ rfm.monetary = 1000
    /\ rfm.score = 467

C24_Positive == eoq.annual_demand > 0 /\ eoq.order_cost > 0 /\ eoq.holding_cost > 0

C24_AllZero ==
    /\ eoq.result.optimal_order_quantity[1] = 0 /\ eoq.result.orders_per_year[1] = 0
    /\ eoq.result.total_cost[1] = 0 /\ eoq.result.average_inventory[1] = 0

\* optimal_order_quantity squared is 2DS/H
C24_IsEoq ==
    eoq.result.optimal_order_quantity[1] * eoq.holding_cost
        = 2 * eoq.annual_demand * eoq.order_cost * eoq.result.optimal_order_quantity[2]

\* (orders_per_year * optimal_order_quantity) squared is D squared
C24_ProductIsDemand ==
    eoq.result.orders_per_year[1] * eoq.result.optimal_order_quantity[1]
        = eoq.annual_demand * eoq.annual_demand
            * eoq.result.orders_per_year[2] * eoq.result.optimal_order_quantity[2]

\* D = 1000, S = 50, H = 2: 223.5 <= quantity <= 223.7, and through the
\* service 223.6 and 4.5
C24_Example ==
    eoq.annual_demand = 1000 /\ eoq.order_cost = 50 /\ eoq.holding_cost = 2 =>
        /\ 2235 * 2235 * eoq.result.optimal_order_quantity[2]
               <= 100 * eoq.result.optimal_order_quantity[1]
        /\ 100 * eoq.result.optimal_order_quantity[1]
               <= 2237 * 2237 * eoq.result.optimal_order_quantity[2]
        /\ eoq.op = "service" => eoq.optimal_order_quantity = 2236 /\ eoq.orders_per_year = 45

\* C24 as stated: for positive D, S, H the quantity is sqrt(2DS/H) and
\* orders_per_year times the quantity is D; when an input is <= 0 the four
\* returned quantities are 0.
C24_Original ==
    eoq.op # "" =>
        /\ C24_Positive => C24_IsEoq /\ C24_ProductIsDemand /\ C24_Example
        /\ ~C24_Positive => C24_AllZero

\* C24, amended: the returned quantity is max(sqrt(2DS/H), 1) and the
\* returned orders_per_year is max(D / sqrt(2DS/H), 1); their product is D
\* when neither was raised to 1; when an input is <= 0 all four are 0.
C24_Amended ==
    eoq.op # "" =>
        /\ C24_Positive =>
            /\ IF 2 * eoq.annual_demand * eoq.order_cost >= eoq.holding_cost
               THEN C24_IsEoq
               ELSE eoq.result.optimal_order_quantity[1] = eoq.result.optimal_order_quantity[2]
            /\ IF eoq.annual_demand * eoq.holding_cost >= 2 * eoq.order_cost
               THEN eoq.result.orders_per_year[1] * 2 * eoq.order_cost
                        = eoq.annual_demand * eoq.holding_cost * eoq.result.orders_per_year[2]
               ELSE eoq.result.orders_per_year[1] = eoq.result.orders_per_year[2]
            /\ (/\ 2 * eoq.annual_demand * eoq.order_cost >= eoq.holding_cost
                /\ eoq.annual_demand * eoq.holding_cost >= 2 * eoq.order_cost)
                  => C24_ProductIsDemand
            /\ C24_Example
        /\ ~C24_Positive => C24_AllZero

\* D = 1, S = 1, H = 1: quantity sqrt(2), orders_per_year raised from
\* 0.707 to 1
C24_Witness ==
    /\ eoq.op = "model"
    /\ eoq.annual_demand = 1 /\ eoq.order_cost = 1 /\ eoq.holding_cost = 1
    /\ eoq.result.optimal_order_quantity = <<2, 1>>
    /\ eoq.result.orders_per_year = <<1, 1>>

\* C25: on a trained model with service level p in (0, 1), safety_stock is
\* z * consumption_std_dev * sqrt(lead_time_days) with z the standard-normal
\* quantile of p, reorder_point is the mean demand during the lead time plus
\* the safety stock, both are defined numbers >= 0, and reorder_point is at
\* least the mean demand during the lead time when p >= 0.5.
C25_Claim ==
    rop.op = "predict_reorder_point" /\ rop.is_trained =>
        LET z == QuantileTable[rop.service_level]
            stock == z * rop.consumption_std_dev * ISqrt(rop.lead_time_days)
            mean == Thousandths * rop.avg_demand_during_lead_time
        IN /\ IsFinite(rop.safety_stock) /\ IsFinite(rop.reorder_point)
           /\ rop.safety_stock[1] >= 0 /\ rop.reorder_point[1] >= 0
           /\ rop.safety_stock[1] = Maximum(stock, 0)
           /\ rop.reorder_point[1] = Maximum(mean + stock, 0)
           /\ rop.service_level >= 500 => rop.reorder_point[1] >= mean

C26_Range(s) == {s[i] : i \in DOMAIN s}

\* the two sets are disjoint, cover the n samples in their order, and every
\* training sample (and timestamp) precedes every test one
C26_Partition ==
    /\ split.X_train \o split.X_test = Samples(split.n)
    /\ C26_Range(split.X_train) \cap C26_Range(split.X_test) = {}
    /\ C26_Range(split.X_train) \cup C26_Range(split.X_test) = 1..split.n
    /\ \A a \in C26_Range(split.X_train), b \in C26_Range(split.X_test) : a < b
    /\ Len(split.X_train) = split.split_idx
    /\ split.op = "demand" =>
        /\ Len(split.dates_train) = split.split_idx
        /\ Len(split.dates_test) = split.n - split.split_idx
        /\ \A a \in C26_Range(split.dates_train), b \in C26_Range(split.dates_test) : a < b

C27_Claim ==
    kb.op = "predict_prep_time" =>
        /\ kb.outcome = "returned"
        /\ 0 <= kb.item_predictions.lower_bound_minutes
        /\ kb.item_predictions.lower_bound_minutes
               <= kb.item_predictions.predicted_prep_time_minutes
        /\ kb.item_predictions.predicted_prep_time_minutes
               <= kb.item_predictions.upper_bound_minutes

\* C29: a recommendation whose action is reorder or emergency_reorder, made
\* with a positive optimal order quantity, has a positive
\* recommended_order_qty; every item listed by get_reorder_summary made with
\* a positive optimal quantity adds a positive quantity to the total; hold
\* and reduce_orders carry recommended_order_qty = 0.
C29_Claim ==
    /\ inv.op = "get_recommendations" =>
        /\ (NeedsReorder(inv) /\ 2 * inv.reorder_point > 0) => inv.recommended_order_qty > 0
        /\ inv.action \in {"hold", "reduce_orders"} => inv.recommended_order_qty = 0
    /\ inv.op = "get_reorder_summary" =>
        \A i \in 1..Len(inv.items) :
            inv.rows[inv.items[i].item_id].reorder_level * 2 > 0
                => inv.items[i].recommended_order_qty > 0

\* C30: create_kitchen_features returns a defined number for avg_prep_time,
\* std_prep_time, min_prep_time, max_prep_time, median_prep_time and
\* item_complexity, for every history, station and item, a tier of exactly
\* one row included.
C30_Claim ==
    fe.last.fn = "create_kitchen_features" =>
        /\ \A k \in {"avg_prep_time", "std_prep_time", "min_prep_time", "max_prep_time",
                     "median_prep_time"} : fe.last.features[k] # NaN
        /\ fe.last.features["item_complexity"][1] # NaN
        /\ fe.last.features["item_complexity"][2] # NaN

====
